---- MODULE Spec2Model ----
(***************************************************************************)
(* koishi-plugin-music-to-voice: the search / paginate / select            *)
(* conversation state machine of the three variants of the plugin          *)
(*   "index"  src/src/index.ts                                             *)
(*   "p000"   src/unnamed/part_000                                         *)
(*   "p001"   src/unnamed/part_001                                         *)
(* Every asynchronous handler is cut at its awaits: the code between two   *)
(* awaits is one atomic step (single-threaded event loop).  The upstream   *)
(* API, the download, the transcoder and the audio send are the            *)
(* environment; each of their outcomes is a nondeterministic choice.       *)
(* Plain text replies of the bot (prompts, menus, tips) are taken to be    *)
(* delivered, except the failure guidance: it is sent from the catch block *)
(* right after a transfer or a send failed, and its own send may fail too. *)
(***************************************************************************)
EXTENDS Integers, Sequences, FiniteSets, TLC

\* ------------------------------------------------------------------ bounds
MaxTime == 3       \* the clock runs 0..MaxTime (seconds)
MaxPage == 3       \* page turns are offered while the stored page is below it
MaxProcs == 2      \* handler slots (handlers that can be suspended at once)
MaxObj == 3        \* heap cells for PendingState objects
MaxTimers == 3     \* timers armed at one time
MaxLate == 1       \* seconds a due timer callback may still be waiting to run
MaxIds == 3        \* message ids one state object collects per list
\* cfg.promptTimeoutSec / waitForTimeout in seconds: a configured value, kept
\* small so that the clock reaches it
PromptTimeoutSec == 2

\* ------------------------------------------------------- program constants
MsThreshold == 10000           \* pickDurationSec: above this the value is ms

Variants == {"index", "p000", "p001"}
Procs == 1..MaxProcs
ObjIds == 1..MaxObj
\* A message handle is written as what the message shows: the handle of a
\* menu is the page it lists, the handle of a generation tip is TipMsg.
TipMsg == 0
TimerIds == 1..MaxTimers
None == 0
Undef == -1                    \* JS undefined / null for a numeric field
NoStr == "<undef>"             \* JS undefined / null for a string field

\* ------------------------------------------------------------ small helpers
Max2(a, b) == IF a >= b THEN a ELSE b

Range(s) == {s[i] : i \in 1..Len(s)}

\* ------------------------------------------------------------ upstream data
\* A raw search item as the aggregator API returns it.  id = NoStr models a
\* missing id/songid, duration = Undef a missing duration/time.
Song(id, name, artist, duration) ==
  [id |-> id, name |-> name, artist |-> artist, duration |-> duration]

S1 == Song("s1", "Song A", "", 30)
S2 == Song("s2", "Song B", "Bob", Undef)
S3 == Song("s3", "Song C", "", 90000)
S4 == Song(NoStr, "Song D", "Dan", 30)
S5 == Song("s5", NoStr, "", 61)

Keywords == {"alpha", "beta"}

\* What the upstream holds for (keyword, page): a fixed catalogue, so that a
\* stored candidate list can be told apart by the page it came from.
Catalog(kw, page) ==
  CASE kw = "alpha" /\ page = 1 -> <<S1, S2>>
    [] kw = "alpha" /\ page = 2 -> <<S3>>
    [] kw = "beta"  /\ page = 1 -> <<S4, S5>>
    [] OTHER -> <<>>

\* ------------------------------------------------------------ JSON values
\* t: "undef" (undefined/null), "str" (a scalar), "arr" (items), "obj" (f).
JUndef == [t |-> "undef", items |-> <<>>, f |-> <<>>]
JStr == [t |-> "str", items |-> <<>>, f |-> <<>>]
JArr(items) == [t |-> "arr", items |-> items, f |-> <<>>]
JObj(f) == [t |-> "obj", items |-> <<>>, f |-> f]

\* v?.k
Get(v, k) == IF v.t = "obj" /\ k \in DOMAIN v.f THEN v.f[k] ELSE JUndef
\* a ?? b
Coalesce(a, b) == IF a.t = "undef" THEN b ELSE a

\* The response shapes the aggregator deployments answer a search with.
Shapes == {"array", "data", "result", "resultList", "message"}
\* What a search request ends in: a response of some shape, or an error.
SearchOutcomes == Shapes \cup {"throw"}

Wrap(shape, items) ==
  CASE shape = "array"      -> JArr(items)
    [] shape = "data"       -> JObj("data" :> JArr(items))
    [] shape = "result"     -> JObj("result" :> JArr(items))
    [] shape = "resultList" -> JObj("result" :> JObj("list" :> JArr(items)))
    [] OTHER                -> JObj("msg" :> JStr)

\* --------------------------------------------- pure functions of index.ts
\* String(x).trim() over the identifiers of the catalogue.
Trim(s) == IF s \in {"", " "} THEN "" ELSE s

toId(x) ==
  IF x = NoStr THEN NoStr
  ELSE IF Trim(x) = "" THEN NoStr ELSE Trim(x)

pickName(it) == IF it.name = NoStr THEN "unknown song" ELSE it.name

pickArtist(it) == IF it.artist = NoStr THEN "" ELSE it.artist

pickDurationSec(it) ==
  LET d == it.duration
  IN IF d = Undef THEN Undef
     ELSE IF d <= 0 THEN Undef
     ELSE IF d > MsThreshold THEN d \div 1000
     ELSE d

\* fmtDuration 71-76: m:ss as the pair <<m, s>>, nothing for no duration.
fmtDuration(sec) ==
  IF sec = Undef \/ sec <= 0 THEN <<>> ELSE <<sec \div 60, sec % 60>>

\* A line of a menu text.  An item line reads "idx. title", then " - artist"
\* when artist is not "", then "  [m:ss]" when dur is <<m, s>>.
MenuLine(kind, idx, title, artist, dur) ==
  [kind |-> kind, idx |-> idx, title |-> title, artist |-> artist, dur |-> dur]
PlainLine(kind) == MenuLine(kind, 0, "", "", <<>>)

\* renderMenuText 540-560; c holds searchCount and showExitHint
renderMenuText(c, keyword, page, items) ==
  LET n == IF Len(items) < c.searchCount THEN Len(items) ELSE c.searchCount
      shown == SubSeq(items, 1, n)        \* items.slice(0, cfg.searchCount)
  IN <<MenuLine("header", page, keyword, "", <<>>), PlainLine("blank")>>
     \o [i \in 1..Len(shown) |->
           MenuLine("item", i, pickName(shown[i]), pickArtist(shown[i]),
                    fmtDuration(pickDurationSec(shown[i])))]
     \o <<PlainLine("blank"), PlainLine("pageHint")>>
     \o (IF c.showExitHint THEN <<PlainLine("exitHint")>> ELSE <<>>)
     \o <<PlainLine("replyHint")>>

\* httpGetJson returns the body: (res as any)?.data ?? res
httpGetJsonBody(res) == Coalesce(Get(res, "data"), res)

\* A faulty normalizer: an array under result, or under its list, is not
\* looked for.
normalizeSearchItemsNoResult(resp) ==
  LET r == Coalesce(Get(resp, "data"), resp)
      arr == Coalesce(Get(r, "data"), Coalesce(Get(r, "songs"), r))
  IN IF arr.t = "undef" THEN <<>>
     ELSE IF arr.t = "arr" THEN arr.items
     ELSE IF Get(arr, "songs").t = "arr" THEN Get(arr, "songs").items
     ELSE <<>>

normalizeSearchItems(resp) ==
  LET r == Coalesce(Get(resp, "data"), Coalesce(Get(resp, "result"), resp))
      arr == Coalesce(Get(r, "data"), Coalesce(Get(r, "result"),
             Coalesce(Get(r, "songs"), Coalesce(Get(r, "list"), r))))
  IN IF arr.t = "undef" THEN <<>>
     ELSE IF arr.t = "arr" THEN arr.items
     ELSE IF Get(arr, "list").t = "arr" THEN Get(arr, "list").items
     ELSE IF Get(arr, "songs").t = "arr" THEN Get(arr, "songs").items
     ELSE <<>>

\* A faulty ladder: the whole ladder whatever cfg.br is.
brFallbackWhole(br) == <<999, 740, 320, 192, 128>>

\* The descending ladder of quality tiers, cut to start at cfg.br.
brFallback(br) ==
  IF br = 999 THEN <<999, 740, 320, 192, 128>>
  ELSE IF br = 740 THEN <<740, 320, 192, 128>>
  ELSE IF br = 320 THEN <<320, 192, 128>>
  ELSE IF br = 192 THEN <<192, 128>>
  ELSE <<128>>

\* finalUrl is modelled by its kind: "mp3" or "wma" (NoStr: none).
isLikelyWma(url) == url = "wma"

\* A faulty test: the .wma extension is not looked at.
needTranscodeNoWma(c, finalUrl, finalBr) ==
  \/ c.forceTranscode
  \/ c.sendMode = "buffer"
  \/ (finalBr # Undef /\ finalBr >= 320)

needTranscode(c, finalUrl, finalBr) ==
  \/ c.forceTranscode
  \/ c.sendMode = "buffer"
  \/ isLikelyWma(finalUrl)
  \/ (finalBr # Undef /\ finalBr >= 320)

\* The inbound texts.  "0" is the configured exit command, "next"/"prev" are
\* the page commands.
Texts == {"-1", "0", "1", "2", "next", "prev", "hello"}
ExitCmds == {"0"}
NextPageCmd == "next"
PrevPageCmd == "prev"

\* Number(text) and Number.isInteger over the inbound texts.
IsIntegerText(t) == t \in {"-1", "0", "1", "2"}
NumberOf(t) ==
  CASE t = "-1" -> -1
    [] t = "0" -> 0
    [] t = "1" -> 1
    [] t = "2" -> 2
    [] OTHER -> Undef

isExitInput(t) == t \in ExitCmds

\* ------------------------------------------------------------------- state
Users == {"A", "B"}
\* Conversation keys: platform:user:channel per user (one channel), and the
\* channel-wide key platform:channel.
Keys == Users \cup {"ch"}

VARIABLES
  variant,   \* which variant of the plugin runs
  cfg,       \* its configuration (fixed after construction)
  env,       \* the environment: who sends, how many handlers may be in flight
  now,       \* Date.now(), in seconds
  pending,   \* Map<PendingKey, PendingState>: key -> heap cell (None: absent)
  heap,      \* the PendingState objects (handlers and closures hold references)
  h,         \* the handler slots: position and locals of each running handler
  timers,    \* armed expiry timers
  recalls,   \* armed recall (message deletion) timers
  fired,     \* what the timer callback that ran last did
  exited,    \* history: the keys whose selection ended with an exit command
             \* and for which the command was not invoked since
  turned,    \* history: per key, when the last successful page turn of its
             \* pending selection returned (Undef: none)
  call,      \* a call of one of the pure functions: its arguments and, once it
             \* has returned, its value
  noticed    \* history: the PendingState objects, of those still referenced,
             \* for which a timeout notice was sent

vars == <<variant, cfg, env, now, pending, heap, h, timers, recalls, fired, exited,
         turned, call, noticed>>

\* interface PendingState.  part_000 has no tipMessageIds and no timer,
\* index.ts no timer.  part_001 has no createdAt: there the field records
\* when the running expiry window of the entry began, that is when its
\* expiry timer was armed last (the code never reads it).
StRec(userId, page, keyword, items, createdAt, menuIds, tipIds, timer) ==
  [userId |-> userId, page |-> page, keyword |-> keyword, items |-> items,
   createdAt |-> createdAt, menuMessageIds |-> menuIds,
   tipMessageIds |-> tipIds, timer |-> timer]

FreeCell == StRec("", 0, "", <<>>, 0, <<>>, <<>>, None)

\* One request or message of a handler, in order of issue.
Ev(k, a) == [k |-> k, a |-> a]

\* The stored state under a key as a value (has = FALSE: no entry).
Snap(pend, hp, k) ==
  IF pend[k] = None THEN [has |-> FALSE, cell |-> FreeCell]
  ELSE [has |-> TRUE, cell |-> hp[pend[k]]]

IdleH ==
  [pc |-> "idle", path |-> "", user |-> "", key |-> "", text |-> "",
   late |-> FALSE, overdue |-> FALSE,
   st |-> None, n |-> Undef, chosen |-> Song(NoStr, NoStr, NoStr, Undef),
   reqPage |-> 0, shown |-> 0, kw |-> "", items |-> <<>>,
   tipIds |-> <<>>, brIdx |-> 0, finalUrl |-> NoStr, finalBr |-> Undef,
   sentOk |-> FALSE, log |-> <<>>, res |-> "", pre |-> [has |-> FALSE, cell |-> FreeCell]]

\* No pure function is being called.
NoCall == [fn |-> "", done |-> FALSE]

NoFired == [kind |-> "", key |-> "", removed |-> FALSE, notice |-> FALSE, ids |-> {}]

Active(hh, p) == hh[p].pc \notin {"idle", "done"}
ActiveProcs == {p \in Procs : Active(h, p)}

\* ---------------------------------------------------- references and reuse
LiveObjs(pend, hh, rc) ==
  ({pend[k] : k \in Keys} \cup {hh[p].st : p \in Procs} \cup {r.obj : r \in rc})
    \ {None}

TimersInUse(pend, hp, hh, rc, tm) ==
  {t.id : t \in tm} \cup
  ({hp[o].timer : o \in LiveObjs(pend, hh, rc)} \ {None})

FreeObjs == ObjIds \ LiveObjs(pending, h, recalls)
FreeTimers == TimerIds \ TimersInUse(pending, heap, h, recalls, timers)

NewObj == CHOOSE o \in FreeObjs : \A x \in FreeObjs : o <= x
NewTimer == CHOOSE t \in FreeTimers : \A x \in FreeTimers : t <= x

\* A new inbound message is taken only while every handler in flight, and
\* the new one, can still get the object and the timer it asks for, and once
\* the recall timers armed by a handler's exit have run (such a timer meets
\* the handlers only through the object it reads, and the handlers in flight
\* still interleave with it).
Room ==
  LET need == Cardinality(ActiveProcs) + 1
  IN /\ Cardinality(FreeObjs) >= need
     /\ Cardinality(FreeTimers) >= need
     /\ \A r \in recalls : r.kind = "p0menu"

\* The slot a new handler runs in: the lowest one not in flight.
FreeSlot(p) ==
  /\ ~Active(h, p)
  /\ \A q \in Procs : q < p => Active(h, q)
  /\ Cardinality(ActiveProcs) < env.inflight

\* A slot shows what its handler did in the state the handler returns in,
\* and fired what a timer callback did in the state after it ran; Return
\* clears both before anything else runs.
Settled == fired = NoFired /\ \A p \in Procs : h[p].pc # "done"
Running(v) == variant = v /\ Settled

Has(log, kind) == \E i \in 1..Len(log) : log[i].k = kind

\* The next state: the given values, with unreferenced heap cells cleared.
CommitF(pend, hp, hh, tm, rc, fd) ==
  /\ pending' = pend
  /\ exited' = (exited \cup {hh[p].key : p \in {q \in Procs :
                    hh[q].pc = "done" /\ Has(hh[q].log, "exitPrompt")}})
                 \ {hh[p].key : p \in {q \in Procs :
                    hh[q].path = "cmd" /\ ~Has(hh[q].log, "exitPrompt")}}
  /\ turned' = [k \in Keys |->
                 IF pend[k] = None THEN Undef
                 ELSE IF \E p \in Procs : /\ h[p].pc = "pageSend" /\ hh[p].pc = "done"
                                          /\ hh[p].key = k
                      THEN now
                      ELSE turned[k]]
  /\ noticed' = (noticed \cup (IF fd.notice /\ pending[fd.key] # None
                                THEN {pending[fd.key]} ELSE {}))
                  \cap LiveObjs(pend, hh, rc)
  /\ h' = hh
  /\ call' = call
  /\ timers' = tm
  /\ recalls' = rc
  /\ fired' = fd
  /\ heap' = [o \in ObjIds |->
               IF o \in LiveObjs(pend, hh, rc) THEN hp[o] ELSE FreeCell]

Commit(pend, hp, hh, tm, rc) == CommitF(pend, hp, hh, tm, rc, NoFired)

\* The handler returns: its slot keeps what it did, and drops its references.
Finish(hrec, res) ==
  [hrec EXCEPT !.pc = "done", !.res = res, !.st = None, !.tipIds = <<>>]

Logged(hrec, k, a) == [hrec EXCEPT !.log = Append(@, Ev(k, a))]

\* ================================================================ index.ts
\* A faulty key: the channel-wide key whatever allowGroupSelect is.
pendingKeyShared(u) == "ch"

pendingKey(u) == IF cfg.allowGroupSelect THEN "ch" ELSE u

\* What session.send hands back is kept as a message id only when it is a
\* string (typeof id === 'string').
IdxSentIds(m) == IF env.sendRet = "string" THEN <<m>> ELSE <<>>

\* An armed recall timer.  The closure of a tip recall holds the array of tip
\* ids; the closure of a menu recall holds the state object and reads its
\* menuMessageIds when it runs.
Recall(kind, key, obj, ids, kw) ==
  [kind |-> kind, key |-> key, obj |-> obj, ids |-> ids, kw |-> kw]
TipRecall(hrec) == Recall("tip", hrec.key, None, Range(hrec.tipIds), "")
MenuRecall(hrec) == Recall("menu", hrec.key, hrec.st, {}, "")

\* handleSelection 649-657 / 659-667: the early exits after the tip was sent
IdxAbort(p, hrec, msg) ==
  LET tipR == "generationTip" \in cfg.recallMessages /\ cfg.tipRecallSec > 0
      h1 == Logged(hrec, msg, 0)
      h2 == IF tipR THEN Logged(h1, "schedTip", 0) ELSE h1
  IN Commit([pending EXCEPT ![hrec.key] = None], heap,
            [h EXCEPT ![p] = Finish(h2, "handled")], timers,
            IF tipR THEN recalls \cup {TipRecall(hrec)} ELSE recalls)

\* A faulty end of handleSelection: the entry is dropped only after a failure.
IdxFinalizeDropsOnFailure(p, hrec, ok) ==
  Commit(IF ok THEN pending ELSE [pending EXCEPT ![hrec.key] = None], heap,
         [h EXCEPT ![p] = Finish([hrec EXCEPT !.sentOk = ok], "handled")],
         timers, recalls)

\* handleSelection 699-708: the send of the failure guidance in the catch
\* block throws.  The recall policy and the final pending.delete(k) are
\* skipped; the middleware catches the error (786-789) and passes the message
\* on, cmd.action lets it through to its caller.
IdxGuideThrows(p, hrec) ==
  Commit(pending, heap,
         [h EXCEPT ![p] = Finish(Logged([hrec EXCEPT !.sentOk = FALSE], "guideThrow", 0),
                                 IF hrec.path = "mw" THEN "next" ELSE "throw")],
         timers, recalls)

\* A faulty recall policy: keepMenuIfSendFailed is not consulted.
IdxFinalizeRecallsMenu(p, hrec, ok) ==
  LET gate == ~cfg.recallOnlyAfterSuccess \/ ok
      tipR == gate /\ "generationTip" \in cfg.recallMessages /\ cfg.tipRecallSec > 0
      menuR == gate /\ "songList" \in cfg.recallMessages /\ cfg.menuRecallSec > 0
      h0 == [hrec EXCEPT !.sentOk = ok]
      h1 == IF ok THEN h0 ELSE Logged(h0, "failGuide", 0)
      h2 == IF tipR THEN Logged(h1, "schedTip", 0) ELSE h1
      h3 == IF menuR THEN Logged(h2, "schedMenu", 0) ELSE h2
      rc == recalls \cup (IF tipR THEN {TipRecall(hrec)} ELSE {})
                    \cup (IF menuR THEN {MenuRecall(hrec)} ELSE {})
  IN Commit([pending EXCEPT ![hrec.key] = None], heap,
            [h EXCEPT ![p] = Finish(h3, "handled")], timers, rc)

\* handleSelection 699-721: the catch block, the recall policy and the
\* final pending.delete(k)
IdxFinalize(p, hrec, ok) ==
  LET gate == ~cfg.recallOnlyAfterSuccess \/ ok
      tipR == gate /\ "generationTip" \in cfg.recallMessages /\ cfg.tipRecallSec > 0
      menuR == /\ gate
               /\ "songList" \in cfg.recallMessages
               /\ cfg.menuRecallSec > 0
               /\ ~(cfg.keepMenuIfSendFailed /\ ~ok)
      h0 == [hrec EXCEPT !.sentOk = ok]
      h1 == IF ok THEN h0 ELSE Logged(h0, "failGuide", 0)
      h2 == IF tipR THEN Logged(h1, "schedTip", 0) ELSE h1
      h3 == IF menuR THEN Logged(h2, "schedMenu", 0) ELSE h2
      rc == recalls \cup (IF tipR THEN {TipRecall(hrec)} ELSE {})
                    \cup (IF menuR THEN {MenuRecall(hrec)} ELSE {})
  IN \/ ~ok /\ IdxGuideThrows(p, hrec)
     \/ Commit([pending EXCEPT ![hrec.key] = None], heap,
               [h EXCEPT ![p] = Finish(h3, "handled")], timers, rc)

\* A faulty check: an invalid number is answered and the entry stays.
handleSelectionKeepsEntry(p, base, o, k, t) ==
  LET n == NumberOf(t)
      valid == IsIntegerText(t) /\ n >= 1 /\ n <= Len(heap[o].items)
  IN IF ~valid
     THEN Commit(pending, heap,
                 [h EXCEPT ![p] = Finish(Logged(base, "invalidNumber", 0), "handled")],
                 timers, recalls)
     ELSE Commit(pending, heap,
                 [h EXCEPT ![p] = [Logged(base, "tip", 0) EXCEPT
                     !.pc = "tip", !.st = o, !.n = n, !.chosen = heap[o].items[n]]],
                 timers, recalls)

\* handleSelection 592-613: the checks before the first await
handleSelection(p, base, o, k, t) ==
  LET n == NumberOf(t)
      valid == IsIntegerText(t) /\ n >= 1 /\ n <= Len(heap[o].items)
  IN IF ~valid
     THEN Commit([pending EXCEPT ![k] = None], heap,
                 [h EXCEPT ![p] = Finish(Logged(base, "invalidNumber", 0), "handled")],
                 timers, recalls)
     ELSE LET chosen == heap[o].items[n]
              songId == toId(chosen.id)
          IN IF songId = NoStr
             THEN Commit([pending EXCEPT ![k] = None], heap,
                         [h EXCEPT ![p] = Finish(Logged(base, "getSongFailed", 0), "handled")],
                         timers, recalls)
             ELSE Commit(pending, heap,
                         [h EXCEPT ![p] = [Logged(base, "tip", 0) EXCEPT
                             !.pc = "tip", !.st = o, !.n = n, !.chosen = chosen]],
                         timers, recalls)

\* A faulty interpretation: the exit command answers with the prompt and
\* leaves the entry, every other input is taken for a selection.
IdxControlExitKeeps(p, base, o, k, t) ==
  IF isExitInput(t)
  THEN Commit(pending, heap,
              [h EXCEPT ![p] = Finish(Logged(base, "exitPrompt", 0), "handled")],
              timers, recalls)
  ELSE handleSelection(p, base, o, k, t)

\* A faulty interpretation: in the middleware too, a text that is not an
\* integer is taken for a selection.
IdxControlSelectsText(p, base, o, k, t) ==
  IF isExitInput(t)
  THEN Commit([pending EXCEPT ![k] = None], heap,
              [h EXCEPT ![p] = Finish(Logged(base, "exitPrompt", 0), "handled")],
              timers, recalls)
  ELSE IF t = NextPageCmd
  THEN /\ heap[o].page < MaxPage
       /\ Commit(pending, [heap EXCEPT ![o].page = @ + 1],
                 [h EXCEPT ![p] = [Logged(base, "search", heap[o].page + 1) EXCEPT
                     !.pc = "pageSearch", !.st = o, !.kw = heap[o].keyword,
                     !.reqPage = heap[o].page + 1]],
                 timers, recalls)
  ELSE IF t = PrevPageCmd
  THEN Commit(pending, [heap EXCEPT ![o].page = Max2(1, @ - 1)],
              [h EXCEPT ![p] = [Logged(base, "search", Max2(1, heap[o].page - 1)) EXCEPT
                  !.pc = "pageSearch", !.st = o, !.kw = heap[o].keyword,
                  !.reqPage = Max2(1, heap[o].page - 1)]],
              timers, recalls)
  ELSE handleSelection(p, base, o, k, t)

\* The interpretation of an input while a selection is pending: middleware
\* 737-785 and cmd.action 805-862 (the same text, except for a non-integer).
IdxControl(p, base, o, k, t) ==
  IF isExitInput(t)
  THEN Commit([pending EXCEPT ![k] = None], heap,
              [h EXCEPT ![p] = Finish(Logged(base, "exitPrompt", 0), "handled")],
              timers, recalls)
  ELSE IF t = NextPageCmd
  THEN /\ heap[o].page < MaxPage
       /\ Commit(pending, [heap EXCEPT ![o].page = @ + 1],
                 [h EXCEPT ![p] = [Logged(base, "search", heap[o].page + 1) EXCEPT
                     !.pc = "pageSearch", !.st = o, !.kw = heap[o].keyword,
                     !.reqPage = heap[o].page + 1]],
                 timers, recalls)
  ELSE IF t = PrevPageCmd
  THEN Commit(pending, [heap EXCEPT ![o].page = Max2(1, @ - 1)],
              [h EXCEPT ![p] = [Logged(base, "search", Max2(1, heap[o].page - 1)) EXCEPT
                  !.pc = "pageSearch", !.st = o, !.kw = heap[o].keyword,
                  !.reqPage = Max2(1, heap[o].page - 1)]],
              timers, recalls)
  ELSE IF base.path = "mw" /\ ~IsIntegerText(t)
  THEN Commit(pending, heap, [h EXCEPT ![p] = Finish(base, "next")], timers, recalls)
  ELSE handleSelection(p, base, o, k, t)

\* A handler starts.  Besides its inputs the slot notes what held when the
\* message came in: the stored state (pre), whether that state had outlived
\* the timeout (late), and whether an expiry timer of the key was due and
\* had not run yet (overdue).
NewHandler(path, u, k, t) ==
  [IdleH EXCEPT !.path = path, !.user = u, !.key = k, !.text = t,
                !.pre = Snap(pending, heap, k),
                !.late = /\ pending[k] # None
                         /\ now - heap[pending[k]].createdAt > PromptTimeoutSec,
                !.overdue = \E tm \in timers : tm.key = k /\ tm.due <= now]

\* ctx.middleware 725-790: a plain message (not the command word)
IdxMwRecv(p, u, t) ==
  /\ Running("index")
  /\ FreeSlot(p) /\ Room
  /\ LET k == pendingKey(u)
         base == NewHandler("mw", u, k, t)
     IN IF pending[k] = None
        THEN Commit(pending, heap, [h EXCEPT ![p] = Finish(base, "next")], timers, recalls)
        ELSE IdxControl(p, base, pending[k], k, t)
  /\ UNCHANGED <<variant, cfg, env, now>>

\* A faulty command path: its own copy of the selection code leaves the
\* entry in place when the number is out of range.
IdxCmdRecvKeepsOnInvalid(p, u, t) ==
  /\ Running("index")
  /\ FreeSlot(p) /\ Room
  /\ LET k == pendingKey(u)
         base == NewHandler("cmd", u, k, t)
     IN IF pending[k] # None
        THEN IF IsIntegerText(t) /\ ~isExitInput(t)
             THEN handleSelectionKeepsEntry(p, base, pending[k], k, t)
             ELSE IdxControl(p, base, pending[k], k, t)
        ELSE Commit(pending, heap,
                    [h EXCEPT ![p] = [Logged(base, "search", 1) EXCEPT
                        !.pc = "search", !.kw = t, !.reqPage = 1]],
                    timers, recalls)
  /\ UNCHANGED <<variant, cfg, env, now>>

\* cmd.action 795-862 and 990-997: the command invoked with argument t
IdxCmdRecv(p, u, t) ==
  /\ Running("index")
  /\ FreeSlot(p) /\ Room
  /\ LET k == pendingKey(u)
         base == NewHandler("cmd", u, k, t)
     IN IF pending[k] # None
        THEN IdxControl(p, base, pending[k], k, t)
        ELSE Commit(pending, heap,
                    [h EXCEPT ![p] = [Logged(base, "search", 1) EXCEPT
                        !.pc = "search", !.kw = t, !.reqPage = 1]],
                    timers, recalls)
  /\ UNCHANGED <<variant, cfg, env, now>>

\* 745-752 / 813-820: the page search answers
IdxPageSearchDone(p) ==
  /\ Running("index") /\ h[p].pc = "pageSearch"
  /\ \E out \in SearchOutcomes :
       LET o == h[p].st
           resp == httpGetJsonBody(Wrap(out, Catalog(h[p].kw, h[p].reqPage)))
           items == normalizeSearchItems(resp)
       IN IF out # "throw"
          THEN Commit(pending,
                      [heap EXCEPT ![o].items = items, ![o].menuMessageIds = <<>>],
                      [h EXCEPT ![p] = [Logged(h[p], "menu", heap[o].page) EXCEPT
                          !.pc = "pageSend", !.items = items, !.shown = heap[o].page]],
                      timers, recalls)
          ELSE Commit(pending, heap,
                      [h EXCEPT ![p] = Finish(Logged(h[p], "getSongFailed", 0), "handled")],
                      timers, recalls)
  /\ UNCHANGED <<variant, cfg, env, now>>

\* 752-754 / 820-822: the new menu was sent
IdxPageSendDone(p) ==
  /\ Running("index") /\ h[p].pc = "pageSend"
  /\ LET o == h[p].st
     IN Commit([pending EXCEPT ![h[p].key] = o],
               [heap EXCEPT ![o].menuMessageIds = @ \o IdxSentIds(h[p].shown)],
               [h EXCEPT ![p] = Finish(h[p], "handled")], timers, recalls)
  /\ UNCHANGED <<variant, cfg, env, now>>

\* 995-1004: the first-page search answers
IdxSearchDone(p) ==
  /\ Running("index") /\ h[p].pc = "search"
  /\ \E out \in SearchOutcomes :
       LET resp == httpGetJsonBody(Wrap(out, Catalog(h[p].kw, 1)))
           items == normalizeSearchItems(resp)
       IN IF out = "throw"
          THEN Commit(pending, heap,
                      [h EXCEPT ![p] = Finish(h[p], "reply:getSongFailed")],
                      timers, recalls)
          ELSE IF Len(items) = 0
          THEN Commit(pending, heap,
                      [h EXCEPT ![p] = Finish(h[p], "reply:noResult")], timers, recalls)
          ELSE Commit(pending, heap,
                      [h EXCEPT ![p] = [Logged(h[p], "menu", 1) EXCEPT
                          !.pc = "searchSend", !.items = items]],
                      timers, recalls)
  /\ UNCHANGED <<variant, cfg, env, now>>

\* 1005-1027: the menu was sent; pending.set and the expiry timer
IdxSearchSendDone(p) ==
  /\ Running("index") /\ h[p].pc = "searchSend"
  /\ LET o == NewObj
         k == h[p].key
     IN Commit([pending EXCEPT ![k] = o],
               [heap EXCEPT ![o] = StRec(h[p].user, 1, h[p].kw, h[p].items, now,
                                         IdxSentIds(1), <<>>, None)],
               [h EXCEPT ![p] = Finish(h[p], "handled")],
               timers \cup {[id |-> None, kind |-> "idx", key |-> k,
                             due |-> now + PromptTimeoutSec]},
               recalls)
  /\ UNCHANGED <<variant, cfg, env, now>>

\* What a resolve request (types=url) ends in: an error, a response with no
\* url, or a url of the given kind.
UrlOutcomes == {"throw", "nourl", "mp3", "wma"}

\* A faulty delivery step: no duration check.
IdxAfterResolveNoLimit(p, hrec) ==
  IF ~needTranscode(cfg, hrec.finalUrl, hrec.finalBr) /\ cfg.sendMode = "record"
  THEN Commit(pending, heap,
              [h EXCEPT ![p] = [Logged(hrec, "audioUrl", 0) EXCEPT !.pc = "sendDirect"]],
              timers, recalls)
  ELSE Commit(pending, heap,
              [h EXCEPT ![p] = [Logged(hrec, "download", 0) EXCEPT !.pc = "download"]],
              timers, recalls)

\* 659-698: the duration check, then the choice of the delivery path
IdxAfterResolve(p, hrec) ==
  LET durSec == pickDurationSec(hrec.chosen)
  IN IF cfg.maxSongDurationMin > 0 /\ durSec # Undef
        /\ durSec > cfg.maxSongDurationMin * 60
     THEN IdxAbort(p, hrec, "durationExceeded")
     ELSE IF ~needTranscode(cfg, hrec.finalUrl, hrec.finalBr) /\ cfg.sendMode = "record"
     THEN Commit(pending, heap,
                 [h EXCEPT ![p] = [Logged(hrec, "audioUrl", 0) EXCEPT !.pc = "sendDirect"]],
                 timers, recalls)
     ELSE Commit(pending, heap,
                 [h EXCEPT ![p] = [Logged(hrec, "download", 0) EXCEPT !.pc = "download"]],
                 timers, recalls)

\* 611-633: the tip was sent; the request for the first tier goes out
IdxTipDone(p) ==
  /\ Running("index") /\ h[p].pc = "tip"
  /\ Commit(pending, heap,
            [h EXCEPT ![p] = [Logged(h[p], "url", brFallback(cfg.br)[1]) EXCEPT
                !.pc = "resolve", !.brIdx = 1, !.tipIds = IdxSentIds(TipMsg)]],
            timers, recalls)
  /\ UNCHANGED <<variant, cfg, env, now>>

\* A faulty loop: an error thrown by one tier ends the resolution.
IdxResolveDoneThrowEnds(p) ==
  /\ Running("index") /\ h[p].pc = "resolve"
  /\ \E out \in UrlOutcomes :
       LET lad == brFallback(cfg.br)
           i == h[p].brIdx
       IN IF out \in {"mp3", "wma"}
          THEN IdxAfterResolve(p, [h[p] EXCEPT !.finalUrl = out, !.finalBr = lad[i]])
          ELSE LET hm == Logged(h[p], IF out = "throw" THEN "urlThrow" ELSE "urlEmpty",
                                lad[i])
               IN IF i < Len(lad) /\ out # "throw"
                  THEN Commit(pending, heap,
                              [h EXCEPT ![p] = [Logged(hm, "url", lad[i + 1]) EXCEPT
                                  !.brIdx = i + 1]],
                              timers, recalls)
                  ELSE IdxAbort(p, hm, "getSongFailed")
  /\ UNCHANGED <<variant, cfg, env, now>>

\* 630-657: one tier of the brFallback loop answers
IdxResolveDone(p) ==
  /\ Running("index") /\ h[p].pc = "resolve"
  /\ \E out \in UrlOutcomes :
       LET lad == brFallback(cfg.br)
           i == h[p].brIdx
       IN IF out \in {"mp3", "wma"}
          THEN IdxAfterResolve(p, [h[p] EXCEPT !.finalUrl = out, !.finalBr = lad[i]])
          ELSE LET hm == Logged(h[p], IF out = "throw" THEN "urlThrow" ELSE "urlEmpty",
                                lad[i])
               IN IF i < Len(lad)
                  THEN Commit(pending, heap,
                              [h EXCEPT ![p] = [Logged(hm, "url", lad[i + 1]) EXCEPT
                                  !.brIdx = i + 1]],
                              timers, recalls)
                  ELSE IdxAbort(p, hm, "getSongFailed")
  /\ UNCHANGED <<variant, cfg, env, now>>

\* 678-681: the direct send of the url answers
IdxSendDirectDone(p) ==
  /\ Running("index") /\ h[p].pc = "sendDirect"
  /\ \E ok \in BOOLEAN : IdxFinalize(p, h[p], ok)
  /\ UNCHANGED <<variant, cfg, env, now>>

\* 684-687: httpGetBuffer answers
IdxDownloadDone(p) ==
  /\ Running("index") /\ h[p].pc = "download"
  /\ \E ok \in BOOLEAN :
       IF ok
       THEN Commit(pending, heap,
                   [h EXCEPT ![p] = [Logged(h[p], "transcode", 0) EXCEPT !.pc = "transcode"]],
                   timers, recalls)
       ELSE IdxFinalize(p, h[p], FALSE)
  /\ UNCHANGED <<variant, cfg, env, now>>

\* 687-694: ffmpegTranscode answers; on an error the wav fallback starts
IdxTranscodeDone(p) ==
  /\ Running("index") /\ h[p].pc = "transcode"
  /\ \E ok \in BOOLEAN :
       IF ok
       THEN Commit(pending, heap,
                   [h EXCEPT ![p] = [Logged(h[p], "audio", 0) EXCEPT !.pc = "sendAudio"]],
                   timers, recalls)
       ELSE Commit(pending, heap,
                   [h EXCEPT ![p] = [Logged(h[p], "wav", 0) EXCEPT !.pc = "wav"]],
                   timers, recalls)
  /\ UNCHANGED <<variant, cfg, env, now>>

\* 689-694: the send of the transcoded audio answers; an error is caught by
\* the same inner catch, which starts the wav fallback
IdxSendAudioDone(p) ==
  /\ Running("index") /\ h[p].pc = "sendAudio"
  /\ \E ok \in BOOLEAN :
       IF ok
       THEN IdxFinalize(p, h[p], TRUE)
       ELSE Commit(pending, heap,
                   [h EXCEPT ![p] = [Logged(h[p], "wav", 0) EXCEPT !.pc = "wav"]],
                   timers, recalls)
  /\ UNCHANGED <<variant, cfg, env, now>>

\* 694-695: ffmpegToWavBuffer answers
IdxWavDone(p) ==
  /\ Running("index") /\ h[p].pc = "wav"
  /\ \E ok \in BOOLEAN :
       IF ok
       THEN Commit(pending, heap,
                   [h EXCEPT ![p] = [Logged(h[p], "audioWav", 0) EXCEPT !.pc = "sendWav"]],
                   timers, recalls)
       ELSE IdxFinalize(p, h[p], FALSE)
  /\ UNCHANGED <<variant, cfg, env, now>>

\* 695-696: the send of the wav answers
IdxSendWavDone(p) ==
  /\ Running("index") /\ h[p].pc = "sendWav"
  /\ \E ok \in BOOLEAN : IdxFinalize(p, h[p], ok)
  /\ UNCHANGED <<variant, cfg, env, now>>

\* 1020-1027: the expiry timer of a search runs
IdxTimeoutFire(t) ==
  /\ Running("index") /\ t \in timers /\ t.kind = "idx"
  /\ now >= t.due
  /\ LET cur == pending[t.key]
         hit == cur # None /\ now - heap[cur].createdAt >= PromptTimeoutSec
     IN CommitF(IF hit THEN [pending EXCEPT ![t.key] = None] ELSE pending,
                heap, h, timers \ {t}, recalls,
                [kind |-> "idx", key |-> t.key, removed |-> hit,
                 notice |-> hit, ids |-> {}])
  /\ UNCHANGED <<variant, cfg, env, now>>

\* safeRecall 562-566 run by a recall timer: deletes the messages
RecallFire(r) ==
  /\ Settled
  /\ r \in recalls /\ r.kind \in {"tip", "menu"}
  /\ CommitF(pending, heap, h, timers, recalls \ {r},
             [kind |-> r.kind, key |-> r.key, removed |-> FALSE, notice |-> FALSE,
              ids |-> IF r.obj # None THEN Range(heap[r.obj].menuMessageIds) ELSE r.ids])
  /\ UNCHANGED <<variant, cfg, env, now>>

\* Time passes.  A due timer callback runs at most MaxLate seconds late.
Tick ==
  /\ Settled
  /\ now < env.horizon
  /\ \A t \in timers : now < t.due + MaxLate
  /\ now' = now + 1
  /\ Commit(pending, heap, h, timers, recalls)
  /\ UNCHANGED <<variant, cfg, env>>

\* ================================================================ part_000
keyOf(u) == u

\* part_000 168-172 over the artists of the catalogue (strings or missing)
normalizeArtists(artist) == IF artist \in {NoStr, ""} THEN "" ELSE artist

\* part_000 259-276 renderMenu; c holds menuExitCommandTip.  `${s.name}`
\* prints a missing name as the text "undefined".
renderMenu(c, keyword, page, songs) ==
  <<MenuLine("header", page, keyword, "", <<>>), PlainLine("blank")>>
  \o [i \in 1..Len(songs) |->
        MenuLine("item", i,
                 IF songs[i].name = NoStr THEN "undefined" ELSE songs[i].name,
                 normalizeArtists(songs[i].artist), <<>>)]
  \o <<PlainLine("blank"), PlainLine("pageHint")>>
  \o (IF c.menuExitCommandTip THEN <<PlainLine("exitHint")>> ELSE <<>>)
  \o <<PlainLine("replyHint")>>

\* part_000 302 / 347: Array.isArray(data) ? data : (data?.data ?? [])
P0Songs(data) ==
  IF data.t = "arr" THEN data.items
  ELSE IF Get(data, "data").t = "arr" THEN Get(data, "data").items
  ELSE <<>>

\* part_000 286-300: the command; its argument is always a keyword
P0CmdRecv(p, u, t) ==
  /\ Running("p000")
  /\ FreeSlot(p) /\ Room
  /\ Commit(pending, heap,
            [h EXCEPT ![p] = [Logged(NewHandler("cmd", u, keyOf(u), t), "search", 1) EXCEPT
                !.pc = "search", !.kw = t, !.reqPage = 1]],
            timers, recalls)
  /\ UNCHANGED <<variant, cfg, env, now>>

\* part_000 296-306: the first-page search answers
P0SearchDone(p) ==
  /\ Running("p000") /\ h[p].pc = "search"
  /\ \E out \in SearchOutcomes :
       LET songs == P0Songs(Wrap(out, Catalog(h[p].kw, 1)))
       IN IF out = "throw"
          THEN Commit(pending, heap, [h EXCEPT ![p] = Finish(h[p], "reply:searchFailed")],
                      timers, recalls)
          ELSE IF Len(songs) = 0
          THEN Commit(pending, heap, [h EXCEPT ![p] = Finish(h[p], "reply:noResult")],
                      timers, recalls)
          ELSE Commit(pending, heap,
                      [h EXCEPT ![p] = [Logged(h[p], "menu", 1) EXCEPT
                          !.pc = "searchSend", !.items = songs, !.shown = 1]],
                      timers, recalls)
  /\ UNCHANGED <<variant, cfg, env, now>>

\* part_000 306-327: the menu was sent; pending.set and the menu recall timer
P0SearchSendDone(p) ==
  /\ Running("p000") /\ h[p].pc = "searchSend"
  /\ LET o == NewObj
         k == h[p].key
         arm == cfg.menuRecallSec > 0 /\ "songList" \in cfg.recallMessages
     IN Commit([pending EXCEPT ![k] = o],
               [heap EXCEPT ![o] = StRec(h[p].user, 1, h[p].kw, h[p].items, now,
                                         <<1>>, <<>>, None)],
               [h EXCEPT ![p] = Finish(h[p], "handled")],
               timers,
               IF arm THEN recalls \cup {Recall("p0menu", k, None, {}, h[p].kw)}
               ELSE recalls)
  /\ UNCHANGED <<variant, cfg, env, now>>

\* part_000 320-325: the menu recall timer of a search runs
P0MenuRecallFire(r) ==
  /\ Running("p000")
  /\ r \in recalls /\ r.kind = "p0menu"
  /\ LET cur == pending[r.key]
         act == /\ cur # None
                /\ heap[cur].keyword = r.kw
                /\ heap[cur].page = 1
                /\ ~cfg.recallOnlyAfterSuccess
     IN CommitF(pending, heap, h, timers, recalls \ {r},
                [kind |-> "p0menu", key |-> r.key, removed |-> FALSE, notice |-> FALSE,
                 ids |-> IF act THEN Range(heap[cur].menuMessageIds) ELSE {}])
  /\ UNCHANGED <<variant, cfg, env, now>>

\* part_000 330-372: the middleware up to its first await
P0MwRecv(p, u, t) ==
  /\ Running("p000")
  /\ FreeSlot(p) /\ Room
  /\ LET k == keyOf(u)
         o == pending[k]
         base == NewHandler("mw", u, k, t)
         idx == NumberOf(t)
     IN IF o = None
        THEN Commit(pending, heap, [h EXCEPT ![p] = Finish(base, "next")], timers, recalls)
        ELSE IF now - heap[o].createdAt > PromptTimeoutSec
        THEN Commit([pending EXCEPT ![k] = None], heap,
                    [h EXCEPT ![p] = Finish(base, "next")], timers, recalls)
        ELSE IF t \in {NextPageCmd, PrevPageCmd}
        THEN LET newPage == IF t = NextPageCmd THEN heap[o].page + 1
                            ELSE Max2(1, heap[o].page - 1)
             IN /\ newPage <= MaxPage
                /\ Commit(pending, heap,
                          [h EXCEPT ![p] = [Logged(base, "search", newPage) EXCEPT
                              !.pc = "pageSearch", !.st = o, !.kw = heap[o].keyword,
                              !.reqPage = newPage]],
                          timers, recalls)
        ELSE IF isExitInput(t)
        THEN LET now0 == /\ cfg.menuRecallSec > 0
                         /\ "songList" \in cfg.recallMessages
                         /\ ~cfg.recallOnlyAfterSuccess
                 h1 == IF now0 THEN Logged(base, "recallMenuNow", 0) ELSE base
             IN Commit([pending EXCEPT ![k] = None], heap,
                       [h EXCEPT ![p] = Finish(Logged(h1, "exitPrompt", 0), "handled")],
                       timers, recalls)
        ELSE IF ~IsIntegerText(t) \/ idx < 1 \/ idx > Len(heap[o].items)
        THEN Commit(pending, heap, [h EXCEPT ![p] = Finish(base, "next")], timers, recalls)
        ELSE Commit(pending, heap,
                    [h EXCEPT ![p] = [Logged(base, "tip", 0) EXCEPT
                        !.pc = "tip", !.st = o, !.n = idx,
                        !.chosen = heap[o].items[idx]]],
                    timers, recalls)
  /\ UNCHANGED <<variant, cfg, env, now>>

\* part_000 346-356: the page search answers
P0PageSearchDone(p) ==
  /\ Running("p000") /\ h[p].pc = "pageSearch"
  /\ \E out \in SearchOutcomes :
       LET songs == P0Songs(Wrap(out, Catalog(h[p].kw, h[p].reqPage)))
       IN IF out = "throw"
          THEN Commit(pending, heap,
                      [h EXCEPT ![p] = Finish(Logged(h[p], "pageFailed", 0), "handled")],
                      timers, recalls)
          ELSE IF Len(songs) = 0
          THEN Commit(pending, heap,
                      [h EXCEPT ![p] = Finish(Logged(h[p], "noMore", 0), "handled")],
                      timers, recalls)
          ELSE Commit(pending, heap,
                      [h EXCEPT ![p] = [Logged(h[p], "menu", h[p].reqPage) EXCEPT
                          !.pc = "pageSend", !.items = songs, !.shown = h[p].reqPage]],
                      timers, recalls)
  /\ UNCHANGED <<variant, cfg, env, now>>

\* part_000 351-352: the new menu was sent; pending.set of a copy of st
P0PageSendDone(p) ==
  /\ Running("p000") /\ h[p].pc = "pageSend"
  /\ LET o == NewObj
         st == heap[h[p].st]
     IN Commit([pending EXCEPT ![h[p].key] = o],
               [heap EXCEPT ![o] = [st EXCEPT !.page = h[p].reqPage, !.items = h[p].items,
                                              !.createdAt = now,
                                              !.menuMessageIds = <<h[p].shown>>]],
               [h EXCEPT ![p] = Finish(h[p], "handled")], timers, recalls)
  /\ UNCHANGED <<variant, cfg, env, now>>

\* part_000 394-409: the send of the failure guidance in the catch block
\* throws.  finally still applies the recall policy; the error then leaves
\* the middleware, and 411-412 are skipped.
P0GuideThrows(p, hrec) ==
  LET tipR == /\ ~cfg.recallOnlyAfterSuccess
              /\ "generationTip" \in cfg.recallMessages /\ cfg.tipRecallSec > 0
      menuR == /\ ~cfg.recallOnlyAfterSuccess
               /\ "songList" \in cfg.recallMessages
               /\ cfg.menuRecallSec > 0
               /\ ~cfg.keepMenuIfSendFailed
      h1 == Logged([hrec EXCEPT !.sentOk = FALSE], "guideThrow", 0)
      h2 == IF tipR THEN Logged(h1, "schedTip", 0) ELSE h1
      h3 == IF menuR THEN Logged(h2, "schedMenu", 0) ELSE h2
      rc == recalls \cup (IF tipR THEN {TipRecall(hrec)} ELSE {})
                    \cup (IF menuR THEN {MenuRecall(hrec)} ELSE {})
  IN Commit(pending, heap, [h EXCEPT ![p] = Finish(h3, "throw")], timers, rc)

\* part_000 394-412: the catch block, the recall policy in finally, and the
\* final pending.delete / pending.set
P0Finalize(p, hrec, ok) ==
  LET gate == ~cfg.recallOnlyAfterSuccess \/ ok
      tipR == gate /\ "generationTip" \in cfg.recallMessages /\ cfg.tipRecallSec > 0
      menuR == /\ gate
               /\ "songList" \in cfg.recallMessages
               /\ cfg.menuRecallSec > 0
               /\ ~(cfg.keepMenuIfSendFailed /\ ~ok)
      h0 == [hrec EXCEPT !.sentOk = ok]
      h1 == IF ok THEN h0 ELSE Logged(h0, "failGuide", 0)
      h2 == IF tipR THEN Logged(h1, "schedTip", 0) ELSE h1
      h3 == IF menuR THEN Logged(h2, "schedMenu", 0) ELSE h2
      rc == recalls \cup (IF tipR THEN {TipRecall(hrec)} ELSE {})
                    \cup (IF menuR THEN {MenuRecall(hrec)} ELSE {})
      o == NewObj
  IN IF ok
     THEN Commit([pending EXCEPT ![hrec.key] = None], heap,
                 [h EXCEPT ![p] = Finish(h3, "handled")], timers, rc)
     ELSE \/ P0GuideThrows(p, hrec)
          \/ Commit([pending EXCEPT ![hrec.key] = o],
                    [heap EXCEPT ![o] = [heap[hrec.st] EXCEPT !.createdAt = now]],
                    [h EXCEPT ![p] = Finish(h3, "handled")], timers, rc)

\* part_000 372-376: the tip was sent; the resolve request goes out
P0TipDone(p) ==
  /\ Running("p000") /\ h[p].pc = "tip"
  /\ Commit(pending, heap,
            [h EXCEPT ![p] = [Logged(h[p], "url", cfg.br) EXCEPT
                !.pc = "resolve", !.tipIds = <<TipMsg>>]],
            timers, recalls)
  /\ UNCHANGED <<variant, cfg, env, now>>

\* part_000 376-386: the resolve request answers
P0ResolveDone(p) ==
  /\ Running("p000") /\ h[p].pc = "resolve"
  /\ \E out \in UrlOutcomes :
       IF out \in {"throw", "nourl"}
       THEN P0Finalize(p, h[p], FALSE)
       ELSE IF ~(cfg.sendMode = "buffer" \/ cfg.forceTranscode)
       THEN Commit(pending, heap,
                   [h EXCEPT ![p] = [Logged(h[p], "audioUrl", 0) EXCEPT
                       !.pc = "sendDirect", !.finalUrl = out, !.finalBr = cfg.br]],
                   timers, recalls)
       ELSE Commit(pending, heap,
                   [h EXCEPT ![p] = [Logged(h[p], "download", 0) EXCEPT
                       !.pc = "download", !.finalUrl = out, !.finalBr = cfg.br]],
                   timers, recalls)
  /\ UNCHANGED <<variant, cfg, env, now>>

\* part_000 383-384 / 391-392: the audio send answers
P0SendDone(p) ==
  /\ Running("p000") /\ h[p].pc \in {"sendDirect", "sendAudio"}
  /\ \E ok \in BOOLEAN : P0Finalize(p, h[p], ok)
  /\ UNCHANGED <<variant, cfg, env, now>>

\* part_000 386-387: httpGetBuffer answers
P0DownloadDone(p) ==
  /\ Running("p000") /\ h[p].pc = "download"
  /\ \E ok \in BOOLEAN :
       IF ok
       THEN Commit(pending, heap,
                   [h EXCEPT ![p] = [Logged(h[p], "transcode", 0) EXCEPT !.pc = "transcode"]],
                   timers, recalls)
       ELSE P0Finalize(p, h[p], FALSE)
  /\ UNCHANGED <<variant, cfg, env, now>>

\* part_000 387-390: ffmpegToWav answers; then the silk service is asked for
P0TranscodeDone(p) ==
  /\ Running("p000") /\ h[p].pc = "transcode"
  /\ \E ok \in BOOLEAN :
       IF ok /\ cfg.hasSilk
       THEN Commit(pending, heap,
                   [h EXCEPT ![p] = [Logged(h[p], "silk", 0) EXCEPT !.pc = "silk"]],
                   timers, recalls)
       ELSE P0Finalize(p, h[p], FALSE)
  /\ UNCHANGED <<variant, cfg, env, now>>

\* part_000 390-391: silk.encode answers
P0SilkDone(p) ==
  /\ Running("p000") /\ h[p].pc = "silk"
  /\ \E ok \in BOOLEAN :
       IF ok
       THEN Commit(pending, heap,
                   [h EXCEPT ![p] = [Logged(h[p], "audio", 0) EXCEPT !.pc = "sendAudio"]],
                   timers, recalls)
       ELSE P0Finalize(p, h[p], FALSE)
  /\ UNCHANGED <<variant, cfg, env, now>>

\* ================================================================ part_001
\* ms(sec) = Math.max(1, sec) * 1000, in seconds
ms(sec) == Max2(1, sec)

\* clearTimeout(state.timer)
Cleared(tm, o) == {t \in tm : t.id # heap[o].timer}

\* apiSearch 182-198: the body must be an array
apiSearch(out, kw, page) ==
  IF out = "array" THEN [ok |-> TRUE, items |-> Catalog(kw, page)]
  ELSE [ok |-> FALSE, items |-> <<>>]

\* recall 173-180 of an array of ids held by value
P1Recall(k, ids) == IF ids = {} THEN {} ELSE {Recall("menu", k, None, ids, "")}

\* part_001 292-303: the command; the old entry goes before the search
P1CmdRecv(p, u, t) ==
  /\ Running("p001")
  /\ FreeSlot(p) /\ Room
  /\ LET k == keyOf(u)
         o == pending[k]
     IN Commit([pending EXCEPT ![k] = None], heap,
               [h EXCEPT ![p] = [Logged(NewHandler("cmd", u, k, t), "search", 1) EXCEPT
                   !.pc = "search", !.kw = t, !.reqPage = 1]],
               IF o # None THEN Cleared(timers, o) ELSE timers, recalls)
  /\ UNCHANGED <<variant, cfg, env, now>>

\* part_001 304-321: the first-page search answers; pending.set before the
\* menu is sent
P1SearchDone(p) ==
  /\ Running("p001") /\ h[p].pc = "search"
  /\ \E out \in SearchOutcomes :
       LET r == apiSearch(out, h[p].kw, 1)
           o == NewObj
       IN IF ~r.ok
          THEN Commit(pending, heap, [h EXCEPT ![p] = Finish(h[p], "reply:searchFailed")],
                      timers, recalls)
          ELSE IF Len(r.items) = 0
          THEN Commit(pending, heap, [h EXCEPT ![p] = Finish(h[p], "reply:noResult")],
                      timers, recalls)
          ELSE Commit([pending EXCEPT ![h[p].key] = o],
                      [heap EXCEPT ![o] = StRec(h[p].user, 1, h[p].kw, r.items, now,
                                                <<>>, <<>>, None)],
                      [h EXCEPT ![p] = [Logged(h[p], "menu", 1) EXCEPT
                          !.pc = "searchSend", !.st = o, !.items = r.items, !.shown = 1]],
                      timers, recalls)
  /\ UNCHANGED <<variant, cfg, env, now>>

\* part_001 321-337: the menu was sent; its ids, the recall and the timer
P1SearchSendDone(p) ==
  /\ Running("p001") /\ h[p].pc = "searchSend"
  /\ LET o == h[p].st
         k == h[p].key
         id == NewTimer
         rec == cfg.menuRecallSec > 0 /\ ~cfg.recallOnlyAfterSuccess
     IN Commit(pending,
               [heap EXCEPT ![o].menuMessageIds = <<h[p].shown>>, ![o].timer = id,
                            ![o].createdAt = now],
               [h EXCEPT ![p] = Finish(h[p], "handled")],
               timers \cup {[id |-> id, kind |-> "p1", key |-> k,
                             due |-> now + ms(PromptTimeoutSec)]},
               IF rec THEN recalls \cup {MenuRecall(h[p])} ELSE recalls)
  /\ UNCHANGED <<variant, cfg, env, now>>

\* part_001 330-335 / 423: an expiry timer runs
P1TimeoutFire(t) ==
  /\ Running("p001") /\ t \in timers /\ t.kind \in {"p1", "p1fail"}
  /\ now >= t.due
  /\ LET hit == pending[t.key] # None
     IN CommitF([pending EXCEPT ![t.key] = None], heap, h, timers \ {t}, recalls,
                [kind |-> t.kind, key |-> t.key, removed |-> hit,
                 notice |-> hit /\ t.kind = "p1", ids |-> {}])
  /\ UNCHANGED <<variant, cfg, env, now>>

\* part_001 341-394: the middleware up to its first await
P1MwRecv(p, u, t) ==
  /\ Running("p001")
  /\ FreeSlot(p) /\ Room
  /\ LET k == keyOf(u)
         o == pending[k]
         base == NewHandler("mw", u, k, t)
         n == NumberOf(t)
     IN IF o = None \/ (o # None /\ heap[o].userId # u)
        THEN Commit(pending, heap, [h EXCEPT ![p] = Finish(base, "next")], timers, recalls)
        ELSE IF isExitInput(t)
        THEN Commit([pending EXCEPT ![k] = None], heap,
                    [h EXCEPT ![p] = Finish(Logged(base, "exitPrompt", 0), "handled")],
                    Cleared(timers, o), recalls)
        ELSE IF t \in {NextPageCmd, PrevPageCmd}
        THEN LET target == IF t = NextPageCmd THEN heap[o].page + 1
                           ELSE Max2(1, heap[o].page - 1)
             IN /\ target <= MaxPage
                /\ Len(heap[o].menuMessageIds) < MaxIds
                /\ IF target = heap[o].page
                   THEN Commit(pending, heap,
                               [h EXCEPT ![p] = Finish(Logged(base, "firstPage", 0), "handled")],
                               timers, recalls)
                   ELSE Commit(pending, heap,
                               [h EXCEPT ![p] = [Logged(base, "search", target) EXCEPT
                                   !.pc = "pageSearch", !.st = o, !.kw = heap[o].keyword,
                                   !.reqPage = target]],
                               timers, recalls)
        ELSE IF ~IsIntegerText(t) \/ n < 1 \/ n > Len(heap[o].items)
        THEN Commit(pending, heap, [h EXCEPT ![p] = Finish(base, "next")], timers, recalls)
        ELSE /\ Len(heap[o].tipMessageIds) < MaxIds
             /\ Commit(pending, heap,
                       [h EXCEPT ![p] = [Logged(base, "tip", 0) EXCEPT
                           !.pc = "tip", !.st = o, !.n = n]],
                       Cleared(timers, o), recalls)
  /\ UNCHANGED <<variant, cfg, env, now>>

\* A faulty page turn: the page and the items are stored before the result
\* is looked at.
P1PageSearchDoneEager(p) ==
  /\ Running("p001") /\ h[p].pc = "pageSearch"
  /\ \E out \in SearchOutcomes :
       LET o == h[p].st
           r == apiSearch(out, h[p].kw, h[p].reqPage)
           hp == [heap EXCEPT ![o].page = h[p].reqPage, ![o].items = r.items]
       IN IF ~r.ok
          THEN Commit(pending, hp,
                      [h EXCEPT ![p] = Finish(Logged(h[p], "pageFailed", 0), "handled")],
                      timers, recalls)
          ELSE IF Len(r.items) = 0
          THEN Commit(pending, hp,
                      [h EXCEPT ![p] = Finish(Logged(h[p], "noMore", 0), "handled")],
                      timers, recalls)
          ELSE Commit(pending, hp,
                      [h EXCEPT ![p] = [Logged(h[p], "menu", h[p].reqPage) EXCEPT
                          !.pc = "pageSend", !.items = r.items, !.shown = h[p].reqPage]],
                      timers, recalls)
  /\ UNCHANGED <<variant, cfg, env, now>>

\* part_001 367-383: the page search answers
P1PageSearchDone(p) ==
  /\ Running("p001") /\ h[p].pc = "pageSearch"
  /\ \E out \in SearchOutcomes :
       LET o == h[p].st
           r == apiSearch(out, h[p].kw, h[p].reqPage)
       IN IF ~r.ok
          THEN Commit(pending, heap,
                      [h EXCEPT ![p] = Finish(Logged(h[p], "pageFailed", 0), "handled")],
                      timers, recalls)
          ELSE IF Len(r.items) = 0
          THEN Commit(pending, heap,
                      [h EXCEPT ![p] = Finish(Logged(h[p], "noMore", 0), "handled")],
                      timers, recalls)
          ELSE Commit(pending,
                      [heap EXCEPT ![o].page = h[p].reqPage, ![o].items = r.items],
                      [h EXCEPT ![p] = [Logged(h[p], "menu", h[p].reqPage) EXCEPT
                          !.pc = "pageSend", !.items = r.items, !.shown = h[p].reqPage]],
                      timers, recalls)
  /\ UNCHANGED <<variant, cfg, env, now>>

\* part_001 375-378: the new menu was sent
P1PageSendDone(p) ==
  /\ Running("p001") /\ h[p].pc = "pageSend"
  /\ LET o == h[p].st
         rec == cfg.menuRecallSec > 0 /\ ~cfg.recallOnlyAfterSuccess
     IN Commit(pending,
               [heap EXCEPT ![o].menuMessageIds = Append(@, h[p].shown)],
               [h EXCEPT ![p] = Finish(h[p], "handled")], timers,
               IF rec THEN recalls \cup P1Recall(h[p].key, {h[p].shown}) ELSE recalls)
  /\ UNCHANGED <<variant, cfg, env, now>>

\* part_001 416-418: the send of the failure guidance throws; the error
\* leaves the middleware and 420-424 are skipped
P1GuideThrows(p, hrec, hp, rc) ==
  Commit(pending, hp, [h EXCEPT ![p] = Finish(Logged(hrec, "guideThrow", 0), "throw")],
         timers, rc)

\* part_001 416-425: the catch block
P1Fail(p, hrec, hp, rc) ==
  LET k == hrec.key
      o == hrec.st
      id == NewTimer
      h1 == Finish(Logged(hrec, "failGuide", 0), "handled")
  IN \/ P1GuideThrows(p, hrec, hp, rc)
     \/ IF ~cfg.keepMenuIfSendFailed
        THEN Commit([pending EXCEPT ![k] = None], hp, [h EXCEPT ![p] = h1], timers, rc)
        ELSE Commit(pending, [hp EXCEPT ![o].timer = id, ![o].createdAt = now],
                    [h EXCEPT ![p] = h1],
                    timers \cup {[id |-> id, kind |-> "p1fail", key |-> k,
                                  due |-> now + ms(PromptTimeoutSec)]},
                    rc)

\* A faulty success branch: the recalls are scheduled whatever the delays.
P1SuccessAnyDelay(p, hrec) ==
  LET tipR == cfg.recallOnlyAfterSuccess /\ Len(hrec.tipIds) > 0
      menuR == cfg.recallOnlyAfterSuccess /\ Len(heap[hrec.st].menuMessageIds) > 0
      h0 == [hrec EXCEPT !.sentOk = TRUE]
      h1 == IF tipR THEN Logged(h0, "schedTip", 0) ELSE h0
      h2 == IF menuR THEN Logged(h1, "schedMenu", 0) ELSE h1
      rc == recalls \cup (IF tipR THEN {TipRecall(hrec)} ELSE {})
                    \cup (IF menuR THEN {MenuRecall(hrec)} ELSE {})
  IN Commit([pending EXCEPT ![hrec.key] = None], heap,
            [h EXCEPT ![p] = Finish(h2, "handled")], timers, rc)

\* part_001 408-415: after sendSong returned
P1Success(p, hrec) ==
  LET tipR == cfg.recallOnlyAfterSuccess /\ cfg.tipRecallSec > 0 /\ Len(hrec.tipIds) > 0
      menuR == /\ cfg.recallOnlyAfterSuccess /\ cfg.menuRecallSec > 0
               /\ Len(heap[hrec.st].menuMessageIds) > 0
      h0 == [hrec EXCEPT !.sentOk = TRUE]
      h1 == IF tipR THEN Logged(h0, "schedTip", 0) ELSE h0
      h2 == IF menuR THEN Logged(h1, "schedMenu", 0) ELSE h1
      rc == recalls \cup (IF tipR THEN {TipRecall(hrec)} ELSE {})
                    \cup (IF menuR THEN {MenuRecall(hrec)} ELSE {})
  IN Commit([pending EXCEPT ![hrec.key] = None], heap,
            [h EXCEPT ![p] = Finish(h2, "handled")], timers, rc)

\* A faulty sendSong: where the url itself would be sent, the delivery fails.
P1FallbackFails(p, hrec) == P1Fail(p, hrec, heap, recalls)

\* sendSong 281-285: the send of the url itself
P1Fallback(p, hrec) ==
  Commit(pending, heap,
         [h EXCEPT ![p] = [Logged(hrec, "audioUrl", 0) EXCEPT !.pc = "sendDirect"]],
         timers, recalls)

\* part_001 392-398: the tip was sent; the item is read and the resolve
\* request goes out
P1TipDone(p) ==
  /\ Running("p001") /\ h[p].pc = "tip"
  /\ LET o == h[p].st
         rec == cfg.tipRecallSec > 0 /\ ~cfg.recallOnlyAfterSuccess
         h1 == [h[p] EXCEPT !.tipIds = <<TipMsg>>]
         hp == [heap EXCEPT ![o].tipMessageIds = Append(@, TipMsg)]
         rc == IF rec THEN recalls \cup {TipRecall(h1)} ELSE recalls
     IN IF h[p].n > Len(heap[o].items)
        THEN P1Fail(p, h1, hp, rc)
        ELSE Commit(pending, hp,
                    [h EXCEPT ![p] = [Logged(h1, "url", 0) EXCEPT
                        !.pc = "resolve", !.chosen = heap[o].items[h[p].n]]],
                    timers, rc)
  /\ UNCHANGED <<variant, cfg, env, now>>

\* part_001 398-406 and sendSong 262-266: the resolve request answers; the
\* duration check; the choice of the delivery path
P1ResolveDone(p) ==
  /\ Running("p001") /\ h[p].pc = "resolve"
  /\ \E out \in UrlOutcomes :
       LET d == h[p].chosen.duration
           hrec == [h[p] EXCEPT !.finalUrl = out]
       IN IF out \in {"throw", "nourl"}
          THEN P1Fail(p, h[p], heap, recalls)
          ELSE IF cfg.maxSongDurationMin > 0 /\ d # Undef /\ d # 0
                  /\ d > cfg.maxSongDurationMin * 60
          THEN Commit(pending, heap,
                      [h EXCEPT ![p] = Finish(Logged(hrec, "durationExceeded", 0), "handled")],
                      timers, recalls)
          ELSE IF cfg.sendAs = "record" /\ cfg.forceTranscode
                  /\ cfg.hasDownloads /\ cfg.hasSilk
          THEN Commit(pending, heap,
                      [h EXCEPT ![p] = [Logged(hrec, "download", 0) EXCEPT !.pc = "download"]],
                      timers, recalls)
          ELSE P1Fallback(p, hrec)
  /\ UNCHANGED <<variant, cfg, env, now>>

\* sendSong 270: downloadToFile answers
P1DownloadDone(p) ==
  /\ Running("p001") /\ h[p].pc = "download"
  /\ \E ok \in BOOLEAN :
       IF ok
       THEN Commit(pending, heap,
                   [h EXCEPT ![p] = [Logged(h[p], "transcode", 0) EXCEPT !.pc = "transcode"]],
                   timers, recalls)
       ELSE P1Fallback(p, h[p])
  /\ UNCHANGED <<variant, cfg, env, now>>

\* sendSong 271: runFfmpegToPcm answers
P1TranscodeDone(p) ==
  /\ Running("p001") /\ h[p].pc = "transcode"
  /\ \E ok \in BOOLEAN :
       IF ok
       THEN Commit(pending, heap,
                   [h EXCEPT ![p] = [Logged(h[p], "silk", 0) EXCEPT !.pc = "silk"]],
                   timers, recalls)
       ELSE P1Fallback(p, h[p])
  /\ UNCHANGED <<variant, cfg, env, now>>

\* sendSong 272: encodeSilk answers
P1SilkDone(p) ==
  /\ Running("p001") /\ h[p].pc = "silk"
  /\ \E ok \in BOOLEAN :
       IF ok
       THEN Commit(pending, heap,
                   [h EXCEPT ![p] = [Logged(h[p], "audio", 0) EXCEPT !.pc = "sendAudio"]],
                   timers, recalls)
       ELSE P1Fallback(p, h[p])
  /\ UNCHANGED <<variant, cfg, env, now>>

\* sendSong 275-278: the send of the silk record answers
P1SendAudioDone(p) ==
  /\ Running("p001") /\ h[p].pc = "sendAudio"
  /\ \E ok \in BOOLEAN :
       IF ok THEN P1Success(p, h[p]) ELSE P1Fallback(p, h[p])
  /\ UNCHANGED <<variant, cfg, env, now>>

\* sendSong 282-285: the send of the url answers
P1SendDirectDone(p) ==
  /\ Running("p001") /\ h[p].pc = "sendDirect"
  /\ \E ok \in BOOLEAN :
       IF ok THEN P1Success(p, h[p]) ELSE P1Fail(p, h[p], heap, recalls)
  /\ UNCHANGED <<variant, cfg, env, now>>

\* The handler's promise resolves / the timer callback is over.
Return ==
  /\ ~Settled
  /\ h' = [p \in Procs |-> IF h[p].pc = "done" THEN IdleH ELSE h[p]]
  /\ fired' = NoFired
  /\ UNCHANGED <<variant, cfg, env, now, pending, heap, timers, recalls, exited, turned,
                 call, noticed>>

\* ------------------------------------------------------------------ config
\* The schema defaults, except br (192 instead of 999, so that the default
\* delivery path is the direct send) and maxSongDurationMin (1 instead of 30,
\* so that the durations of the catalogue lie on both sides of the limit).
\* hasDownloads / hasSilk: whether the optional services are installed.
BaseCfg ==
  [br |-> 192, sendMode |-> "record", forceTranscode |-> FALSE,
   maxSongDurationMin |-> 1, keepMenuIfSendFailed |-> TRUE,
   recallOnlyAfterSuccess |-> TRUE, recallMessages |-> {"generationTip", "songList"},
   tipRecallSec |-> 10, menuRecallSec |-> 60, allowGroupSelect |-> FALSE,
   sendAs |-> "record", hasDownloads |-> TRUE, hasSilk |-> TRUE]

Brs == {128, 192, 320, 740, 999}

InitWith(vs, cfgs, envs) ==
  /\ variant \in vs
  /\ cfg \in cfgs
  /\ env \in envs
  /\ now = 0
  /\ pending = [k \in Keys |-> None]
  /\ heap = [o \in ObjIds |-> FreeCell]
  /\ h = [p \in Procs |-> IdleH]
  /\ timers = {}
  /\ recalls = {}
  /\ fired = NoFired
  /\ exited = {}
  /\ turned = [k \in Keys |-> Undef]
  /\ call = NoCall
  /\ noticed = {}

\* One user who waits for the bot's answer before the next message.
SeqEnv == [senders |-> {"A"}, inflight |-> 1, sendRet |-> "string", horizon |-> MaxTime]

ForceCfg == [BaseCfg EXCEPT !.forceTranscode = TRUE]
CoreCfgs == {BaseCfg}

Inputs == Texts \cup Keywords

NextIdx ==
  \/ \E p \in Procs, u \in env.senders, t \in Texts : IdxMwRecv(p, u, t)
  \/ \E p \in Procs, u \in env.senders, t \in Inputs : IdxCmdRecv(p, u, t)
  \/ \E p \in Procs : IdxPageSearchDone(p)
  \/ \E p \in Procs : IdxPageSendDone(p)
  \/ \E p \in Procs : IdxSearchDone(p)
  \/ \E p \in Procs : IdxSearchSendDone(p)
  \/ \E p \in Procs : IdxTipDone(p)
  \/ \E p \in Procs : IdxResolveDone(p)
  \/ \E p \in Procs : IdxSendDirectDone(p)
  \/ \E p \in Procs : IdxDownloadDone(p)
  \/ \E p \in Procs : IdxTranscodeDone(p)
  \/ \E p \in Procs : IdxSendAudioDone(p)
  \/ \E p \in Procs : IdxWavDone(p)
  \/ \E p \in Procs : IdxSendWavDone(p)
  \/ \E t \in timers : IdxTimeoutFire(t)
  \/ \E r \in recalls : RecallFire(r)
  \/ Tick
  \/ Return

NextP1 ==
  \/ \E p \in Procs, u \in env.senders, t \in Texts : P1MwRecv(p, u, t)
  \/ \E p \in Procs, u \in env.senders, t \in Inputs : P1CmdRecv(p, u, t)
  \/ \E p \in Procs : P1PageSearchDone(p)
  \/ \E p \in Procs : P1PageSendDone(p)
  \/ \E p \in Procs : P1SearchDone(p)
  \/ \E p \in Procs : P1SearchSendDone(p)
  \/ \E p \in Procs : P1TipDone(p)
  \/ \E p \in Procs : P1ResolveDone(p)
  \/ \E p \in Procs : P1DownloadDone(p)
  \/ \E p \in Procs : P1TranscodeDone(p)
  \/ \E p \in Procs : P1SilkDone(p)
  \/ \E p \in Procs : P1SendAudioDone(p)
  \/ \E p \in Procs : P1SendDirectDone(p)
  \/ \E t \in timers : P1TimeoutFire(t)
  \/ \E r \in recalls : RecallFire(r)
  \/ Tick
  \/ Return

Next ==
  \/ \E p \in Procs, u \in env.senders, t \in Texts : IdxMwRecv(p, u, t)
  \/ \E p \in Procs, u \in env.senders, t \in Inputs : IdxCmdRecv(p, u, t)
  \/ \E p \in Procs : IdxPageSearchDone(p)
  \/ \E p \in Procs : IdxPageSendDone(p)
  \/ \E p \in Procs : IdxSearchDone(p)
  \/ \E p \in Procs : IdxSearchSendDone(p)
  \/ \E p \in Procs : IdxTipDone(p)
  \/ \E p \in Procs : IdxResolveDone(p)
  \/ \E p \in Procs : IdxSendDirectDone(p)
  \/ \E p \in Procs : IdxDownloadDone(p)
  \/ \E p \in Procs : IdxTranscodeDone(p)
  \/ \E p \in Procs : IdxSendAudioDone(p)
  \/ \E p \in Procs : IdxWavDone(p)
  \/ \E p \in Procs : IdxSendWavDone(p)
  \/ \E t \in timers : IdxTimeoutFire(t)
  \/ \E p \in Procs, u \in env.senders, t \in Texts : P0MwRecv(p, u, t)
  \/ \E p \in Procs, u \in env.senders, t \in Inputs : P0CmdRecv(p, u, t)
  \/ \E p \in Procs : P0PageSearchDone(p)
  \/ \E p \in Procs : P0PageSendDone(p)
  \/ \E p \in Procs : P0SearchDone(p)
  \/ \E p \in Procs : P0SearchSendDone(p)
  \/ \E p \in Procs : P0TipDone(p)
  \/ \E p \in Procs : P0ResolveDone(p)
  \/ \E p \in Procs : P0SendDone(p)
  \/ \E p \in Procs : P0DownloadDone(p)
  \/ \E p \in Procs : P0TranscodeDone(p)
  \/ \E p \in Procs : P0SilkDone(p)
  \/ \E r \in recalls : P0MenuRecallFire(r)
  \/ \E p \in Procs, u \in env.senders, t \in Texts : P1MwRecv(p, u, t)
  \/ \E p \in Procs, u \in env.senders, t \in Inputs : P1CmdRecv(p, u, t)
  \/ \E p \in Procs : P1PageSearchDone(p)
  \/ \E p \in Procs : P1PageSendDone(p)
  \/ \E p \in Procs : P1SearchDone(p)
  \/ \E p \in Procs : P1SearchSendDone(p)
  \/ \E p \in Procs : P1TipDone(p)
  \/ \E p \in Procs : P1ResolveDone(p)
  \/ \E p \in Procs : P1DownloadDone(p)
  \/ \E p \in Procs : P1TranscodeDone(p)
  \/ \E p \in Procs : P1SilkDone(p)
  \/ \E p \in Procs : P1SendAudioDone(p)
  \/ \E p \in Procs : P1SendDirectDone(p)
  \/ \E t \in timers : P1TimeoutFire(t)
  \/ \E r \in recalls : RecallFire(r)
  \/ Tick
  \/ Return

\* ---------------------------------------------------------- specifications
\* Every variant, one user who waits for each answer.
Init ==
  \/ InitWith({"index"}, {BaseCfg}, {SeqEnv})
  \/ InitWith({"p000", "p001"}, {BaseCfg, ForceCfg}, {SeqEnv})

Spec == Init /\ [][Next]_vars

\* index.ts with every configured br, within one instant: the handlers of
\* index.ts run, no time passes and so no expiry timer comes due.
BrCfgs == {[BaseCfg EXCEPT !.br = b] : b \in Brs}
NextIdxInstant ==
  \/ \E p \in Procs, u \in env.senders, t \in Texts : IdxMwRecv(p, u, t)
  \/ \E p \in Procs, u \in env.senders, t \in Inputs : IdxCmdRecv(p, u, t)
  \/ \E p \in Procs : IdxPageSearchDone(p)
  \/ \E p \in Procs : IdxPageSendDone(p)
  \/ \E p \in Procs : IdxSearchDone(p)
  \/ \E p \in Procs : IdxSearchSendDone(p)
  \/ \E p \in Procs : IdxTipDone(p)
  \/ \E p \in Procs : IdxResolveDone(p)
  \/ \E p \in Procs : IdxSendDirectDone(p)
  \/ \E p \in Procs : IdxDownloadDone(p)
  \/ \E p \in Procs : IdxTranscodeDone(p)
  \/ \E p \in Procs : IdxSendAudioDone(p)
  \/ \E p \in Procs : IdxWavDone(p)
  \/ \E p \in Procs : IdxSendWavDone(p)
  \/ \E r \in recalls : RecallFire(r)
  \/ Return

SpecBr == InitWith({"index"}, BrCfgs, {SeqEnv}) /\ [][NextIdxInstant]_vars

\* index.ts with two users in the channel, with and without allowGroupSelect,
\* within one instant.
TwoUsersEnv == [senders |-> {"A", "B"}, inflight |-> 1, sendRet |-> "string", horizon |-> 0]
GroupCfg == [BaseCfg EXCEPT !.allowGroupSelect = TRUE]
SpecGroup == InitWith({"index"}, {BaseCfg, GroupCfg}, {TwoUsersEnv}) /\ [][NextIdxInstant]_vars

\* index.ts and part_000 under every recall policy, with and without forced
\* transcoding, within one instant.
RecallCfgs ==
  {[BaseCfg EXCEPT !.recallOnlyAfterSuccess = ros, !.recallMessages = rm,
                   !.menuRecallSec = sec, !.keepMenuIfSendFailed = keep,
                   !.forceTranscode = f] :
     ros \in BOOLEAN, rm \in SUBSET {"generationTip", "songList"},
     sec \in {0, 60}, keep \in BOOLEAN, f \in BOOLEAN}
NextRecall ==
  \/ \E p \in Procs, u \in env.senders, t \in Texts : IdxMwRecv(p, u, t)
  \/ \E p \in Procs, u \in env.senders, t \in Inputs : IdxCmdRecv(p, u, t)
  \/ \E p \in Procs : IdxPageSearchDone(p)
  \/ \E p \in Procs : IdxPageSendDone(p)
  \/ \E p \in Procs : IdxSearchDone(p)
  \/ \E p \in Procs : IdxSearchSendDone(p)
  \/ \E p \in Procs : IdxTipDone(p)
  \/ \E p \in Procs : IdxResolveDone(p)
  \/ \E p \in Procs : IdxSendDirectDone(p)
  \/ \E p \in Procs : IdxDownloadDone(p)
  \/ \E p \in Procs : IdxTranscodeDone(p)
  \/ \E p \in Procs : IdxSendAudioDone(p)
  \/ \E p \in Procs : IdxWavDone(p)
  \/ \E p \in Procs : IdxSendWavDone(p)
  \/ \E p \in Procs, u \in env.senders, t \in Texts : P0MwRecv(p, u, t)
  \/ \E p \in Procs, u \in env.senders, t \in Inputs : P0CmdRecv(p, u, t)
  \/ \E p \in Procs : P0PageSearchDone(p)
  \/ \E p \in Procs : P0PageSendDone(p)
  \/ \E p \in Procs : P0SearchDone(p)
  \/ \E p \in Procs : P0SearchSendDone(p)
  \/ \E p \in Procs : P0TipDone(p)
  \/ \E p \in Procs : P0ResolveDone(p)
  \/ \E p \in Procs : P0SendDone(p)
  \/ \E p \in Procs : P0DownloadDone(p)
  \/ \E p \in Procs : P0TranscodeDone(p)
  \/ \E p \in Procs : P0SilkDone(p)
  \/ \E r \in recalls : P0MenuRecallFire(r)
  \/ \E r \in recalls : RecallFire(r)
  \/ Return
SpecRecall == InitWith({"index", "p000"}, RecallCfgs, {SeqEnv}) /\ [][NextRecall]_vars

\* part_001 with forced transcoding, with and without the downloads and the
\* silk service.
CapCfgs ==
  {[ForceCfg EXCEPT !.hasDownloads = d, !.hasSilk = k] : d \in BOOLEAN, k \in BOOLEAN}
SpecCaps == InitWith({"p001"}, CapCfgs, {SeqEnv}) /\ [][NextP1]_vars

\* index.ts under every delivery mode, with a br below and a br at 320,
\* within one instant.
DeliverCfgs ==
  {[BaseCfg EXCEPT !.br = b, !.sendMode = m, !.forceTranscode = f] :
     b \in {192, 320}, m \in {"record", "buffer"}, f \in BOOLEAN}
SpecDeliver == InitWith({"index"}, DeliverCfgs, {SeqEnv}) /\ [][NextIdxInstant]_vars

\* index.ts and part_001 with each recall delay zero or positive, with and
\* without forced transcoding, within one instant.
ZeroCfgs ==
  {[BaseCfg EXCEPT !.tipRecallSec = t, !.menuRecallSec = m,
                   !.recallOnlyAfterSuccess = ros, !.forceTranscode = f] :
     t \in {0, 10}, m \in {0, 60}, ros \in BOOLEAN, f \in BOOLEAN}
NowEnv == [senders |-> {"A"}, inflight |-> 1, sendRet |-> "string", horizon |-> 0]
NextZero ==
  \/ \E p \in Procs, u \in env.senders, t \in Texts : IdxMwRecv(p, u, t)
  \/ \E p \in Procs, u \in env.senders, t \in Inputs : IdxCmdRecv(p, u, t)
  \/ \E p \in Procs : IdxPageSearchDone(p)
  \/ \E p \in Procs : IdxPageSendDone(p)
  \/ \E p \in Procs : IdxSearchDone(p)
  \/ \E p \in Procs : IdxSearchSendDone(p)
  \/ \E p \in Procs : IdxTipDone(p)
  \/ \E p \in Procs : IdxResolveDone(p)
  \/ \E p \in Procs : IdxSendDirectDone(p)
  \/ \E p \in Procs : IdxDownloadDone(p)
  \/ \E p \in Procs : IdxTranscodeDone(p)
  \/ \E p \in Procs : IdxSendAudioDone(p)
  \/ \E p \in Procs : IdxWavDone(p)
  \/ \E p \in Procs : IdxSendWavDone(p)
  \/ \E p \in Procs, u \in env.senders, t \in Texts : P1MwRecv(p, u, t)
  \/ \E p \in Procs, u \in env.senders, t \in Inputs : P1CmdRecv(p, u, t)
  \/ \E p \in Procs : P1PageSearchDone(p)
  \/ \E p \in Procs : P1PageSendDone(p)
  \/ \E p \in Procs : P1SearchDone(p)
  \/ \E p \in Procs : P1SearchSendDone(p)
  \/ \E p \in Procs : P1TipDone(p)
  \/ \E p \in Procs : P1ResolveDone(p)
  \/ \E p \in Procs : P1DownloadDone(p)
  \/ \E p \in Procs : P1TranscodeDone(p)
  \/ \E p \in Procs : P1SilkDone(p)
  \/ \E p \in Procs : P1SendAudioDone(p)
  \/ \E p \in Procs : P1SendDirectDone(p)
  \/ \E r \in recalls : RecallFire(r)
  \/ Return
SpecZero == InitWith({"index", "p001"}, ZeroCfgs, {NowEnv}) /\ [][NextZero]_vars

\* ------------------------------------------------- calls of pure functions
\* The item arrays an upstream response may carry.
MaxItems == 2
ItemSeqs == UNION {[1..n -> {S1, S2, S3, S4, S5}] : n \in 0..MaxItems}

\* Besides the shapes of a search response: null, and a text that is no JSON
\* object.
NormShapes == Shapes \cup {"null", "text"}
NormInput(shape, items) ==
  CASE shape = "null" -> JUndef
    [] shape = "text" -> JStr
    [] OTHER -> Wrap(shape, items)

\* The plugin is constructed and idle, and a pure function is about to be
\* called: one of fns, with arguments out of args.
CallInit(fns, args) ==
  /\ variant = "index" /\ cfg = BaseCfg /\ env = NowEnv /\ now = 0
  /\ pending = [k \in Keys |-> None]
  /\ heap = [o \in ObjIds |-> FreeCell]
  /\ h = [p \in Procs |-> IdleH]
  /\ timers = {} /\ recalls = {} /\ fired = NoFired /\ exited = {}
  /\ turned = [k \in Keys |-> Undef] /\ noticed = {}
  /\ \E fn \in fns, a \in args :
       call = [fn |-> fn, done |-> FALSE, arg |-> a, out |-> <<>>]

CallReturns(out) ==
  /\ call' = [call EXCEPT !.done = TRUE, !.out = out]
  /\ UNCHANGED <<variant, cfg, env, now, pending, heap, h, timers, recalls, fired,
                 exited, turned, noticed>>

\* normalizeSearchItems(resp) is called and returns.
NormalizeCall ==
  /\ call.fn = "normalizeSearchItems" /\ ~call.done
  /\ CallReturns(normalizeSearchItems(NormInput(call.arg.shape, call.arg.items)))

SpecNormalize ==
  /\ CallInit({"normalizeSearchItems"}, [shape : NormShapes, items : ItemSeqs])
  /\ [][NormalizeCall]_vars

\* What the renderers read of the configuration: how many lines the menu of
\* index.ts may list (1, or the default 20), and whether the exit hint is
\* shown (showExitHint / menuExitCommandTip).
MenuCfgs == [searchCount : {1, 20}, showExitHint : BOOLEAN, menuExitCommandTip : BOOLEAN]

\* renderMenuText(cfg, keyword, page, items) of index.ts is called and returns.
RenderMenuTextCall ==
  /\ call.fn = "renderMenuText" /\ ~call.done
  /\ CallReturns(renderMenuText(call.arg.c, call.arg.keyword, call.arg.page,
                                call.arg.items))

\* renderMenu(cfg, keyword, page, songs) of part_000 is called and returns.
RenderMenuCall ==
  /\ call.fn = "renderMenu" /\ ~call.done
  /\ CallReturns(renderMenu(call.arg.c, call.arg.keyword, call.arg.page,
                            call.arg.items))

NextRender == RenderMenuTextCall \/ RenderMenuCall

SpecRender ==
  /\ CallInit({"renderMenuText", "renderMenu"},
              [c : MenuCfgs, keyword : {"alpha"}, page : {1}, items : ItemSeqs])
  /\ [][NextRender]_vars

\* One user who does not wait for the bot's answer: a second message is
\* handled while the handler of the first is suspended.  Within one instant.
ConcEnv == [senders |-> {"A"}, inflight |-> 2, sendRet |-> "string", horizon |-> 0]
\* What that user sends: the command with one keyword, and as plain
\* messages the exit command and a number.
NextConc ==
  \/ \E p \in Procs, u \in env.senders, t \in {"0", "1"} : IdxMwRecv(p, u, t)
  \/ \E p \in Procs, u \in env.senders, t \in {"alpha"} : IdxCmdRecv(p, u, t)
  \/ \E p \in Procs : IdxSearchDone(p)
  \/ \E p \in Procs : IdxSearchSendDone(p)
  \/ \E p \in Procs : IdxTipDone(p)
  \/ \E p \in Procs : IdxResolveDone(p)
  \/ \E p \in Procs : IdxSendDirectDone(p)
  \/ \E p \in Procs : IdxDownloadDone(p)
  \/ \E p \in Procs : IdxTranscodeDone(p)
  \/ \E p \in Procs : IdxSendAudioDone(p)
  \/ \E p \in Procs : IdxWavDone(p)
  \/ \E p \in Procs : IdxSendWavDone(p)
  \/ \E p \in Procs, u \in env.senders, t \in {"0", "1"} : P0MwRecv(p, u, t)
  \/ \E p \in Procs, u \in env.senders, t \in {"alpha"} : P0CmdRecv(p, u, t)
  \/ \E p \in Procs : P0SearchDone(p)
  \/ \E p \in Procs : P0SearchSendDone(p)
  \/ \E p \in Procs : P0TipDone(p)
  \/ \E p \in Procs : P0ResolveDone(p)
  \/ \E p \in Procs : P0SendDone(p)
  \/ \E p \in Procs : P0DownloadDone(p)
  \/ \E p \in Procs : P0TranscodeDone(p)
  \/ \E p \in Procs : P0SilkDone(p)
  \/ \E p \in Procs, u \in env.senders, t \in {"0", "1"} : P1MwRecv(p, u, t)
  \/ \E p \in Procs, u \in env.senders, t \in {"alpha"} : P1CmdRecv(p, u, t)
  \/ \E p \in Procs : P1SearchDone(p)
  \/ \E p \in Procs : P1SearchSendDone(p)
  \/ \E p \in Procs : P1TipDone(p)
  \/ \E p \in Procs : P1ResolveDone(p)
  \/ \E p \in Procs : P1DownloadDone(p)
  \/ \E p \in Procs : P1TranscodeDone(p)
  \/ \E p \in Procs : P1SilkDone(p)
  \/ \E p \in Procs : P1SendAudioDone(p)
  \/ \E p \in Procs : P1SendDirectDone(p)
  \/ \E r \in recalls : RecallFire(r)
  \/ Return
SpecConc ==
  /\ \/ InitWith({"index"}, {BaseCfg}, {ConcEnv})
     \/ InitWith({"p000", "p001"}, {BaseCfg, ForceCfg}, {ConcEnv})
  /\ [][NextConc]_vars

\* index.ts with that user turning pages: the command with one keyword, and
\* the next-page command as a plain message.
NextTurns ==
  \/ \E p \in Procs, u \in env.senders, t \in {NextPageCmd} : IdxMwRecv(p, u, t)
  \/ \E p \in Procs, u \in env.senders, t \in {"alpha"} : IdxCmdRecv(p, u, t)
  \/ \E p \in Procs : IdxPageSearchDone(p)
  \/ \E p \in Procs : IdxPageSendDone(p)
  \/ \E p \in Procs : IdxSearchDone(p)
  \/ \E p \in Procs : IdxSearchSendDone(p)
  \/ Return
SpecTurns == InitWith({"index"}, {BaseCfg}, {ConcEnv}) /\ [][NextTurns]_vars

\* index.ts with numbers coming in on both paths, as plain messages and as
\* the argument of the command, while handlers are in flight.
NextPaths ==
  \/ \E p \in Procs, u \in env.senders, t \in {"-1", "1", "2"} : IdxMwRecv(p, u, t)
  \/ \E p \in Procs, u \in env.senders, t \in {"alpha", "beta", "-1", "1", "2"} :
       IdxCmdRecv(p, u, t)
  \/ \E p \in Procs : IdxSearchDone(p)
  \/ \E p \in Procs : IdxSearchSendDone(p)
  \/ \E p \in Procs : IdxTipDone(p)
  \/ \E p \in Procs : IdxResolveDone(p)
  \/ \E p \in Procs : IdxSendDirectDone(p)
  \/ \E p \in Procs : IdxDownloadDone(p)
  \/ \E p \in Procs : IdxTranscodeDone(p)
  \/ \E p \in Procs : IdxSendAudioDone(p)
  \/ \E p \in Procs : IdxWavDone(p)
  \/ \E p \in Procs : IdxSendWavDone(p)
  \/ \E r \in recalls : RecallFire(r)
  \/ Return
SpecPaths == InitWith({"index"}, {BaseCfg, ForceCfg}, {ConcEnv}) /\ [][NextPaths]_vars

SpecIdx == InitWith({"index"}, CoreCfgs, {SeqEnv}) /\ [][NextIdx]_vars


\* ============================================================== properties
\* A slot whose handler has just returned shows, together with the state it
\* returned in, everything the handler did.
Done(p) == h[p].pc = "done"
Post(p) == Snap(pending, heap, h[p].key)
Urls(log) == SelectSeq(log, LAMBDA e : e.k = "url")
Misses(log) == SelectSeq(log, LAMBDA e : e.k \in {"urlThrow", "urlEmpty"})
SentAudio(log) == Has(log, "audioUrl") \/ Has(log, "audio") \/ Has(log, "audioWav")
IsPageTurn(p) == h[p].pre.has /\ h[p].text \in {NextPageCmd, PrevPageCmd}

\* C1: in index.ts, a next-page or prev-page input (middleware or command)
\* whose search fails with an upstream error leaves the stored page number
\* and the stored candidate list as they were before the input.
C1_FailedPageTurnLeavesPageAndCandidates ==
  \A p \in Procs :
    (variant = "index" /\ Done(p) /\ IsPageTurn(p) /\ Has(h[p].log, "getSongFailed"))
      => /\ Post(p).has
         /\ Post(p).cell.page = h[p].pre.cell.page
         /\ Post(p).cell.items = h[p].pre.cell.items

\* C2: in every variant, while a pending selection with N candidates exists
\* for the key (in part_000: one that has not outlived the timeout), an
\* integer input n with 1 <= n <= N starts the URL resolution of candidate
\* n-1 exactly once (no request is issued twice), and an integer input with
\* n <= 0 or n > N starts no URL resolution request.
C2_NumericInputResolvesChosenOnce ==
  \A p \in Procs :
    (Done(p) /\ h[p].pre.has /\ IsIntegerText(h[p].text)
       /\ (variant = "p000" => ~h[p].late))
      => LET n == NumberOf(h[p].text)
             cands == h[p].pre.cell.items
             u == Urls(h[p].log)
         IN IF 1 <= n /\ n <= Len(cands)
            THEN /\ Len(u) >= 1
                 /\ h[p].chosen = cands[n]
                 /\ \A i, j \in 1..Len(u) : u[i] = u[j] => i = j
            ELSE u = <<>>

\* C3: in every variant, when a selection handler whose audio message was
\* sent successfully returns, the pending map has no entry for its key.
C3_SuccessfulDeliveryRemovesPending ==
  \A p \in Procs :
    (Done(p) /\ h[p].sentOk) => (SentAudio(h[p].log) /\ pending[h[p].key] = None)

C3_Witness ==
  \E p \in Procs : Done(p) /\ h[p].sentOk /\ h[p].pre.has /\ SentAudio(h[p].log)

\* C4: in index.ts, after a selection whose delivery failed (download,
\* transcode or send error) with keepMenuIfSendFailed enabled, the pending
\* selection of the key is still present when the handler returns, with the
\* same candidate list and createdAt set to the time of the failure.
C4_FailedDeliveryKeepsPending ==
  \A p \in Procs :
    (variant = "index" /\ Done(p) /\ Has(h[p].log, "failGuide")
       /\ cfg.keepMenuIfSendFailed)
      => /\ Post(p).has
         /\ Post(p).cell.items = h[p].pre.cell.items
         /\ Post(p).cell.createdAt = now

\* C5: in every variant, an exit command for a key with a pending selection
\* leaves the key without a pending selection, and an integer input that
\* follows for that key before the command is invoked again is not
\* intercepted: no message, no resolution request, and the input is passed
\* to the next handler.
C5_ExitThenNumericPassesOn ==
  /\ \A p \in Procs :
       (Done(p) /\ h[p].pre.has /\ Has(h[p].log, "exitPrompt"))
         => pending[h[p].key] = None
  /\ \A k \in exited : pending[k] = None
  /\ \A p \in Procs :
       (Done(p) /\ h[p].path = "mw" /\ IsIntegerText(h[p].text)
          /\ h[p].key \in exited /\ ~Has(h[p].log, "exitPrompt"))
         => (h[p].res = "next" /\ h[p].log = <<>>)

C5_Witness ==
  \E p \in Procs :
    /\ Done(p) /\ h[p].path = "mw" /\ h[p].text = "1"
    /\ h[p].key \in exited /\ h[p].res = "next"

\* C6: in index.ts and part_001, an inbound message handled more than the
\* timeout after the creation of the pending selection of its key, at a
\* moment when no expiry timer of the key is due and waiting to run, is not
\* interpreted as exit, page turn or selection: a plain message is passed on
\* untouched and the command starts a new search for its argument.
C6_LateMessageNotInterpreted ==
  \A p \in Procs :
    (variant \in {"index", "p001"} /\ Done(p) /\ h[p].pre.has
       /\ h[p].late /\ ~h[p].overdue)
      => IF h[p].path = "mw"
         THEN h[p].res = "next" /\ h[p].log = <<>>
         ELSE /\ h[p].log # <<>>
              /\ h[p].log[1] = Ev("search", 1)
              /\ h[p].kw = h[p].text

\* The fixed ladder, and its part that starts at the tier br.
C7_Ladder == <<999, 740, 320, 192, 128>>
C7_LadderFrom(br) ==
  LET i == CHOOSE j \in 1..Len(C7_Ladder) : C7_Ladder[j] = br
  IN SubSeq(C7_Ladder, i, Len(C7_Ladder))

\* C7: in index.ts, the resolver requests the tiers in the order of the
\* ladder 999, 740, 320, 192, 128 cut to start at cfg.br; every tier before
\* the last one requested was a miss; the tier whose response carried a url
\* is recorded as the bitrate used, and no tier below it is requested.
C7_TiersDescendFromBrAndStopAtFirstUrl ==
  \A p \in Procs :
    LET u == Urls(h[p].log)
        m == Misses(h[p].log)
        lad == C7_LadderFrom(cfg.br)
    IN /\ Len(u) <= Len(lad)
       /\ \A i \in 1..Len(u) : u[i].a = lad[i]
       /\ \A i \in 1..Len(m) : m[i].a = lad[i]
       /\ h[p].finalBr # Undef
            => /\ Len(u) >= 1
               /\ h[p].finalBr = u[Len(u)].a
               /\ Len(m) = Len(u) - 1
               /\ h[p].finalUrl # NoStr

C7_Witness ==
  \E p \in Procs :
    /\ Done(p) /\ cfg.br = 999 /\ h[p].finalBr = 320
    /\ Len(Urls(h[p].log)) = 3
    /\ Has(h[p].log, "urlThrow")

\* C8: in index.ts, the resolution fails exactly when every tier of the
\* ladder threw or returned no url; after a tier that threw, the next tier
\* is still requested; on failure the get-song-failed message is sent, the
\* pending selection is removed and no download is requested.
C8_ResolutionFailsIffEveryTierMisses ==
  \A p \in Procs :
    LET log == h[p].log
        lad == C7_LadderFrom(cfg.br)
    IN /\ \A i \in 1..Len(log) :
            (log[i].k = "urlThrow" /\ log[i].a # lad[Len(lad)])
              => (i < Len(log) /\ log[i + 1].k = "url" /\ log[i + 1].a < log[i].a)
       /\ (Done(p) /\ Len(Urls(log)) >= 1)
            => /\ (h[p].finalBr = Undef) <=> (Len(Misses(log)) = Len(lad))
               /\ (h[p].finalBr = Undef)
                    => /\ Has(log, "getSongFailed")
                       /\ pending[h[p].key] = None
                       /\ ~Has(log, "download")
                       /\ ~SentAudio(log)

C8_Witness ==
  \E p \in Procs :
    /\ Done(p) /\ h[p].finalBr = Undef /\ cfg.br = 320
    /\ Len(Misses(h[p].log)) = 3
    /\ Has(h[p].log, "urlThrow") /\ Has(h[p].log, "urlEmpty")
    /\ Has(h[p].log, "getSongFailed")

\* The duration of the chosen candidate in seconds as the variant reads it,
\* and whether it is known and above the configured maximum.
C9_Seconds(c) == IF variant = "index" THEN pickDurationSec(c) ELSE c.duration
C9_TooLong(p) ==
  /\ Has(h[p].log, "url")
  /\ cfg.maxSongDurationMin > 0
  /\ C9_Seconds(h[p].chosen) # Undef
  /\ C9_Seconds(h[p].chosen) > cfg.maxSongDurationMin * 60

C10_NewSearchReplacesPending ==
  \A p \in Procs :
    (variant = "index" /\ Done(p) /\ h[p].path = "cmd" /\ h[p].pre.has
       /\ h[p].text \in Keywords
       /\ h[p].res \notin {"reply:getSongFailed", "reply:noResult"})
      => /\ Post(p).has
         /\ Post(p).cell.keyword = h[p].text
         /\ Post(p).cell.page = 1
         /\ Post(p).cell.items = Catalog(h[p].text, 1)

\* Handler p takes a step (it starts with a message, or goes on after an
\* await), and the step in which it takes up a message.
HandlerStep(p) == h'[p] # h[p] /\ h'[p].pc # "idle"
HandlerReceipt(p) == HandlerStep(p) /\ h[p].pc = "idle"

\* C11: in index.ts with allowGroupSelect disabled, no step of a handler of
\* user B reads, changes or removes the pending selection stored for another
\* user of the channel, and a plain message of B, who has no selection of
\* their own, is passed on to the next handler with nothing sent; with
\* allowGroupSelect enabled there is one pending selection per channel, and
\* an exit command, a page command or a number in range of any user of the
\* channel exits, pages or selects on it.
C11_OnlyOwnerProgressesSelection ==
  [][\A p \in Procs :
       (variant = "index" /\ HandlerStep(p)) =>
         IF ~cfg.allowGroupSelect
         THEN /\ h'[p].key = h'[p].user
              /\ h'[p].st # None => h'[p].st = pending[h'[p].user]
              /\ \A k \in Keys \ {h'[p].user} :
                   Snap(pending', heap', k) = Snap(pending, heap, k)
              /\ (HandlerReceipt(p) /\ h'[p].path = "mw" /\ pending[h'[p].user] = None)
                   => /\ h'[p].pc = "done" /\ h'[p].res = "next" /\ h'[p].log = <<>>
                      /\ pending' = pending /\ heap' = heap
         ELSE /\ h'[p].key = "ch"
              /\ \A u \in Users : pending'[u] = None
              /\ (HandlerReceipt(p) /\ pending["ch"] # None)
                   => LET t == h'[p].text
                          cell == heap[pending["ch"]]
                      IN /\ isExitInput(t)
                              => (Has(h'[p].log, "exitPrompt") /\ pending'["ch"] = None)
                         /\ t = NextPageCmd
                              => h'[p].log = <<Ev("search", cell.page + 1)>>
                         /\ t = PrevPageCmd
                              => h'[p].log = <<Ev("search", Max2(1, cell.page - 1))>>
                         /\ (IsIntegerText(t) /\ ~isExitInput(t) /\ NumberOf(t) >= 1
                               /\ NumberOf(t) <= Len(cell.items)
                               /\ toId(cell.items[NumberOf(t)].id) # NoStr)
                              => /\ h'[p].log = <<Ev("tip", 0)>>
                                 /\ h'[p].chosen = cell.items[NumberOf(t)]
     ]_vars

\* B's plain message is passed on while A's selection is pending.
C11_Witness ==
  \E p \in Procs :
    /\ variant = "index" /\ ~cfg.allowGroupSelect
    /\ Done(p) /\ h[p].user = "B" /\ h[p].path = "mw" /\ h[p].text = "1"
    /\ h[p].res = "next"
    /\ pending["A"] # None /\ pending["B"] = None

\* With allowGroupSelect, B selects from the list A searched for.
C11_GroupWitness ==
  \E p \in Procs :
    /\ variant = "index" /\ cfg.allowGroupSelect
    /\ Done(p) /\ h[p].user = "B" /\ h[p].pre.has /\ h[p].pre.cell.userId = "A"
    /\ h[p].sentOk

\* C12: in index.ts, on every exit path of selection handling (resolve
\* failure, duration exceeded, delivery success, delivery failure), a recall
\* of the generation tip or of the song list is scheduled only if that
\* category is listed in recallMessages and (recallOnlyAfterSuccess is false
\* or the audio was sent successfully).
C12_RecallOnlyPerPolicy ==
  \A p \in Procs :
    (variant = "index" /\ Done(p)) =>
      /\ Has(h[p].log, "schedTip")
           => /\ "generationTip" \in cfg.recallMessages
              /\ (~cfg.recallOnlyAfterSuccess \/ h[p].sentOk)
      /\ Has(h[p].log, "schedMenu")
           => /\ "songList" \in cfg.recallMessages
              /\ (~cfg.recallOnlyAfterSuccess \/ h[p].sentOk)

\* The delivery of a selection failed: the handler went through its catch
\* block (the failure guidance was sent, or its send threw).
C13_DeliveryFailed(p) ==
  /\ Done(p) /\ ~h[p].sentOk
  /\ Has(h[p].log, "failGuide") \/ Has(h[p].log, "guideThrow")

C14_EmptyPage(p) ==
  /\ Done(p) /\ IsPageTurn(p) /\ Has(h[p].log, "search")
  /\ ~Has(h[p].log, "getSongFailed") /\ h[p].items = <<>>

\* C14: in index.ts, when a next-page input is handled and the search for
\* page+1 succeeds but returns no items, the user is told that there are no
\* more results and the stored page and candidate list are unchanged (so
\* that a number in [1,N] that follows selects from the N candidates of the
\* previous page).
C14_EmptyNextPageKeepsState ==
  \A p \in Procs :
    (variant = "index" /\ h[p].text = NextPageCmd /\ C14_EmptyPage(p))
      => /\ Has(h[p].log, "noMore")
         /\ ~Has(h[p].log, "menu")
         /\ Post(p).has
         /\ Post(p).cell.page = h[p].pre.cell.page
         /\ Post(p).cell.items = h[p].pre.cell.items

\* C15: in part_000 and part_001, no step of a page-turn handler whose
\* search fails or returns an empty list changes the pending selection
\* stored for the key (page, candidates, menu message ids, and the rest of
\* the entry): the entry the input found is the entry the handler leaves,
\* unless the expiry timer of part_001 removed it while the search was
\* under way.
C15_FailedPageTurnChangesNothing ==
  [][\A p \in Procs :
       (/\ variant \in {"p000", "p001"}
        /\ HandlerStep(p)
        /\ h'[p].pre.has /\ h'[p].text \in {NextPageCmd, PrevPageCmd}
        /\ \/ h'[p].pc = "pageSearch"
           \/ /\ h'[p].pc = "done"
              /\ Has(h'[p].log, "pageFailed") \/ Has(h'[p].log, "noMore"))
         => /\ Snap(pending', heap', h'[p].key) = Snap(pending, heap, h'[p].key)
            /\ pending'[h'[p].key] # None => Snap(pending', heap', h'[p].key) = h'[p].pre
     ]_vars

C15_Witness ==
  \E p \in Procs :
    /\ variant = "p001" /\ Done(p) /\ IsPageTurn(p) /\ h[p].text = NextPageCmd
    /\ Has(h[p].log, "noMore")
    /\ Post(p) = h[p].pre /\ Post(p).cell.page = 2

\* C16: in index.ts and part_000, a prev-page input while the stored page is
\* 1 (in part_000: of an entry that has not outlived the timeout) reports
\* that this is already the first page, issues no search request, sends no
\* new menu and leaves the pending selection unchanged.
C16_PrevAtFirstPageOnlyReports ==
  \A p \in Procs :
    (/\ variant \in {"index", "p000"} /\ Done(p)
     /\ h[p].pre.has /\ h[p].text = PrevPageCmd /\ h[p].pre.cell.page = 1
     /\ variant = "p000" => ~h[p].late)
      => /\ Has(h[p].log, "firstPage")
         /\ ~Has(h[p].log, "search")
         /\ ~Has(h[p].log, "menu")
         /\ Post(p) = h[p].pre

\* An input to a pending selection of index.ts that is neither a command
\* nor a number of the list: an integer outside [1,N], or a text that is no
\* integer.
C17_Invalid(p) ==
  /\ variant = "index" /\ Done(p) /\ h[p].pre.has
  /\ ~isExitInput(h[p].text) /\ h[p].text \notin {NextPageCmd, PrevPageCmd}
  /\ \/ ~IsIntegerText(h[p].text)
     \/ NumberOf(h[p].text) < 1
     \/ NumberOf(h[p].text) > Len(h[p].pre.cell.items)

\* C17 as stated: in index.ts, an input to a pending selection that is an
\* integer outside [1,N] or a malformed (non-numeric, non-command) text
\* clears the pending selection of the key and sends the invalid-number
\* message, on the middleware path and on the command path.
C17_InvalidAlwaysClearsAndReports ==
  \A p \in Procs :
    C17_Invalid(p) => (Has(h[p].log, "invalidNumber") /\ pending[h[p].key] = None)

\* C17 amended: in index.ts, an integer outside [1,N] on either path, and a
\* malformed text given to the command, clear the pending selection of the
\* key and send the invalid-number message; a malformed plain message on the
\* middleware path is passed on to the next handler, nothing is sent and
\* the pending selection stays as it is.
C17_InvalidClearsExceptPlainText ==
  \A p \in Procs :
    C17_Invalid(p) =>
      IF h[p].path = "mw" /\ ~IsIntegerText(h[p].text)
      THEN h[p].res = "next" /\ h[p].log = <<>> /\ Post(p) = h[p].pre
      ELSE /\ h[p].log = <<Ev("invalidNumber", 0)>>
           /\ h[p].res = "handled"
           /\ pending[h[p].key] = None

C17_Witness ==
  \E p \in Procs :
    /\ C17_Invalid(p) /\ h[p].path = "mw" /\ h[p].text = "2"
    /\ Len(h[p].pre.cell.items) = 1
    /\ Has(h[p].log, "invalidNumber") /\ pending[h[p].key] = None

\* part_001 was to deliver a url as a transcoded record (sendAs 'record',
\* forceTranscode) and the downloads or the silk service is absent, or the
\* transcode step failed.
C18_TranscodeUnavailable(p) ==
  /\ variant = "p001" /\ Done(p)
  /\ cfg.sendAs = "record" /\ cfg.forceTranscode
  /\ h[p].finalUrl # NoStr /\ ~Has(h[p].log, "durationExceeded")
  /\ \/ ~cfg.hasDownloads
     \/ ~cfg.hasSilk
     \/ Has(h[p].log, "transcode") /\ ~Has(h[p].log, "silk")

C19_StepFailed(p) ==
  /\ variant \in {"index", "p000"} /\ Done(p)
  /\ Has(h[p].log, "audioUrl") \/ Has(h[p].log, "download")
  /\ ~h[p].sentOk \/ Has(h[p].log, "wav")

\* C19: in index.ts and part_000, whichever delivery step fails (download,
\* transcode, or sending the audio), the selection handler completes
\* without an exception reaching its caller, the outcome is recorded as
\* failed (sentOk false) and the user is sent the failure guidance message.
C19_DeliveryFailureCaughtAndReported ==
  \A p \in Procs :
    C19_StepFailed(p)
      => /\ h[p].res # "throw" /\ ~Has(h[p].log, "guideThrow")
         /\ ~h[p].sentOk
         /\ Has(h[p].log, "failGuide")

\* A handler of index.ts has a url and is past the duration check.
C20_Delivering(p) ==
  /\ variant = "index"
  /\ h[p].finalUrl # NoStr /\ ~Has(h[p].log, "durationExceeded")

\* The url goes out as it is, with no download / the payload is downloaded,
\* and audio goes out only after a transcode of it.
C20_SentAsIs(p) ==
  /\ Has(h[p].log, "audioUrl") /\ ~Has(h[p].log, "download")
  /\ ~Has(h[p].log, "audio") /\ ~Has(h[p].log, "audioWav")
C20_Transcoded(p) ==
  /\ Has(h[p].log, "download") /\ ~Has(h[p].log, "audioUrl")
  /\ Has(h[p].log, "audio") => Has(h[p].log, "transcode")
  /\ Has(h[p].log, "audioWav") => Has(h[p].log, "wav")

\* C20 as stated: in index.ts, once a url is resolved and the duration
\* check has passed, the url is sent as it is with no download whenever
\* sendMode is 'record', forceTranscode is false and the url is not flagged
\* fragile (.wma); in every other case the payload is downloaded and
\* transcoded before sending.
C20_DirectUnlessForcedBufferOrWma ==
  \A p \in Procs :
    C20_Delivering(p) =>
      IF cfg.sendMode = "record" /\ ~cfg.forceTranscode /\ ~isLikelyWma(h[p].finalUrl)
      THEN C20_SentAsIs(p)
      ELSE C20_Transcoded(p)

\* C20 amended: in index.ts, once a url is resolved and the duration check
\* has passed, the url is sent as it is with no download whenever sendMode
\* is 'record', forceTranscode is false, the url is not flagged fragile
\* (.wma) and the tier that returned the url is below 320; in every other
\* case the payload is downloaded and transcoded before sending.
C20_DirectUnlessForcedBufferWmaOrHighTier ==
  \A p \in Procs :
    C20_Delivering(p) =>
      IF /\ cfg.sendMode = "record" /\ ~cfg.forceTranscode
         /\ ~isLikelyWma(h[p].finalUrl) /\ h[p].finalBr < 320
      THEN C20_SentAsIs(p)
      ELSE C20_Transcoded(p)

\* br 320 missed, 192 returned an mp3 url, which went out as it is.
C20_Witness ==
  \E p \in Procs :
    /\ C20_Delivering(p) /\ Done(p) /\ cfg.br = 320 /\ h[p].finalBr = 192
    /\ cfg.sendMode = "record" /\ ~cfg.forceTranscode /\ h[p].finalUrl = "mp3"
    /\ C20_SentAsIs(p) /\ h[p].sentOk

\* An expiry timer callback removes the pending selection of key k.
ExpiryRemoves(k) ==
  /\ fired = NoFired
  /\ fired'.kind \in {"idx", "p1", "p1fail"} /\ fired'.key = k /\ fired'.removed

\* C21: in index.ts and part_001, every successful page turn restarts the
\* expiry window: after a page turn that returned at time t, no timer
\* removes the pending selection before t + timeout.
C21_PageTurnRestartsExpiryWindow ==
  [][\A k \in Keys :
       (variant \in {"index", "p001"} /\ turned[k] # Undef /\ ExpiryRemoves(k))
         => now >= turned[k] + PromptTimeoutSec]_vars

\* The handler in slot p has returned from a page turn that sent a new menu.
C22_TurnedPage(p) ==
  /\ Done(p) /\ variant \in {"index", "p000"}
  /\ IsPageTurn(p) /\ Has(h[p].log, "menu") /\ Post(p).has

\* C22: in index.ts and part_000, a page turn appends the id of the new
\* menu message to the outstanding menu ids of the pending selection, so
\* that a successful delivery with the song-list recall scheduled recalls
\* every menu sent during the selection: the menu of the first page and the
\* menu of the page the selection was made on are among the recalled ids.
C22_PageTurnAppendsMenuId ==
  \A p \in Procs :
    /\ C22_TurnedPage(p)
         => Post(p).cell.menuMessageIds
              = h[p].pre.cell.menuMessageIds \o <<h[p].shown>>
    /\ (Done(p) /\ variant \in {"index", "p000"}
        /\ h[p].sentOk /\ Has(h[p].log, "schedMenu"))
         => {1, h[p].pre.cell.page} \subseteq Range(h[p].pre.cell.menuMessageIds)

\* The handler in slot p has delivered the song, so that the policy gate of
\* the recalls is satisfied whatever recallOnlyAfterSuccess is.
C23_Delivered(p) ==
  /\ Done(p) /\ variant \in {"index", "p001"}
  /\ h[p].sentOk

\* The category is enabled (part_001 has no category switch).
C23_Enabled(cat) == variant = "p001" \/ cat \in cfg.recallMessages

\* A deletion of kind kd for key k is scheduled or was just performed.
C23_Recalled(kd, k) ==
  \/ \E r \in recalls : r.kind = kd /\ r.key = k
  \/ fired.kind = kd /\ fired.key = k

\* C23 as stated: in index.ts and part_001, with the category enabled and
\* the policy gate satisfied, a configured delay of 0 still leads to the
\* deletion of the messages.
C23_ZeroDelayStillRecalls ==
  \A p \in Procs :
    C23_Delivered(p) =>
      /\ (cfg.tipRecallSec = 0 /\ C23_Enabled("generationTip"))
           => C23_Recalled("tip", h[p].key)
      /\ (cfg.menuRecallSec = 0 /\ C23_Enabled("songList"))
           => C23_Recalled("menu", h[p].key)

\* C23 amended: in index.ts and part_001 a configured delay of 0 disables
\* the recall: no deletion of the messages of that category is ever
\* scheduled or performed, also with the category enabled and the policy
\* gate satisfied.
C23_ZeroDelayDisablesRecall ==
  /\ cfg.tipRecallSec = 0 => \A k \in Keys : ~C23_Recalled("tip", k)
  /\ cfg.menuRecallSec = 0 => \A k \in Keys : ~C23_Recalled("menu", k)

\* A song was delivered with both delays 0 and nothing is to be deleted.
C23_Witness ==
  \E p \in Procs :
    /\ C23_Delivered(p)
    /\ cfg.tipRecallSec = 0 /\ cfg.menuRecallSec = 0
    /\ C23_Enabled("generationTip") /\ C23_Enabled("songList")
    /\ recalls = {}

\* The middleware of index.ts has handled, with a selection pending, a text
\* that is neither an exit command, nor a page command, nor an integer.
C24_PlainText(p) ==
  /\ variant = "index" /\ Done(p) /\ h[p].path = "mw"
  /\ h[p].pre.has
  /\ ~isExitInput(h[p].text)
  /\ h[p].text \notin {NextPageCmd, PrevPageCmd}
  /\ ~IsIntegerText(h[p].text)

\* C24: in index.ts, with a pending selection, a middleware input that is
\* neither an exit command, nor a page command, nor an integer is passed to
\* the next handler, nothing is sent, and the pending selection (page,
\* candidates, createdAt, message ids) is left as it was.
C24_PlainTextPassesOnUnchanged ==
  \A p \in Procs :
    C24_PlainText(p)
      => /\ h[p].res = "next"
         /\ h[p].log = <<>>
         /\ Post(p) = h[p].pre

\* 'hello' came in while a selection was pending.
C24_Witness ==
  \E p \in Procs :
    /\ C24_PlainText(p) /\ h[p].text = "hello"
    /\ h[p].res = "next" /\ Post(p).has /\ Len(Post(p).cell.items) > 0

\* The shapes of a search response that carry the array of items.
KnownShapes == {"array", "data", "result", "resultList"}

\* C25: normalizeSearchItems of index.ts returns the same sequence of items
\* for the same items in each known shape (bare array, {data:[...]},
\* {result:[...]}, {result:{list:[...]}}), and the empty sequence when no
\* shape yields an array.
C25_NormalizeYieldsItemsOfEveryShape ==
  (call.fn = "normalizeSearchItems" /\ call.done)
    => call.out = IF call.arg.shape \in KnownShapes THEN call.arg.items ELSE <<>>

\* Two items under {result:{list:[...]}} came out as they went in.
C25_Witness ==
  /\ call.fn = "normalizeSearchItems" /\ call.done
  /\ call.arg.shape = "resultList" /\ call.arg.items = <<S1, S4>>
  /\ call.out = <<S1, S4>>

\* C26: in index.ts, the candidate list stored in a pending selection (the
\* list shown to the user) never contains an item that lacks an identifier
\* or lacks a name.
C26_StoredCandidatesHaveIdAndName ==
  variant = "index" =>
    \A k \in Keys :
      pending[k] # None =>
        \A i \in 1..Len(heap[pending[k]].items) :
          /\ toId(heap[pending[k]].items[i].id) # NoStr
          /\ heap[pending[k]].items[i].name # NoStr

\* The numbered lines of a rendered menu.
ItemLines(text) == SelectSeq(text, LAMBDA l : l.kind = "item")

\* The texts the renderers print where an item has no name.
Placeholders == {"unknown song", "undefined"}

\* Line i of the menu is the line of item it: its number and its name, the
\* artist segment exactly when the item has an artist, a duration only when
\* the item has one, and no placeholder.
C27_LineOf(l, i, it) ==
  /\ l.idx = i
  /\ it.name # NoStr => l.title = it.name
  /\ l.title \notin Placeholders
  /\ l.artist = (IF it.artist \in {NoStr, ""} THEN "" ELSE it.artist)
  /\ l.dur # <<>> => (it.duration # Undef /\ it.duration > 0)

\* C27: in index.ts and part_000, the rendered menu for K candidates has
\* exactly K numbered lines, line i being "i. <title>" for candidate i,
\* with the " - artist" segment only when the artist is not empty and a
\* duration only when the duration is known; no placeholder is rendered for
\* missing data.
C27_MenuHasOneLinePerCandidate ==
  (call.fn \in {"renderMenuText", "renderMenu"} /\ call.done)
    => /\ Len(ItemLines(call.out)) = Len(call.arg.items)
       /\ \A i \in 1..Len(ItemLines(call.out)) :
            C27_LineOf(ItemLines(call.out)[i], i, call.arg.items[i])

\* What a search for page pg of keyword kw may answer with.
SearchResults(kw, pg) ==
  {normalizeSearchItems(httpGetJsonBody(Wrap(out, Catalog(kw, pg)))) : out \in Shapes}

\* C28: in index.ts, under every interleaving of two page-turn handlers of
\* one key that are both suspended at their search, once both have returned
\* (the last of them with the menu sent and no handler in flight) the stored
\* candidate list is the result of the search for the stored page number.
C28_StoredListIsOfStoredPage ==
  \A p \in Procs :
    (/\ variant = "index" /\ Done(p)
     /\ IsPageTurn(p) /\ Has(h[p].log, "menu")
     /\ \A q \in Procs : ~Active(h, q)
     /\ Post(p).has)
      => Post(p).cell.items \in SearchResults(Post(p).cell.keyword, Post(p).cell.page)

\* The handler in slot p is, or was, resolving and delivering a selection
\* out of the pending selection object o.
C29_Delivers(p, o) ==
  /\ Active(h, p) /\ h[p].st = o
  /\ Has(h[p].log, "tip")

\* C29: in every variant, at most one resolve-and-deliver run is ever
\* started for one pending selection, also when a second valid number for
\* the same key comes in while the handler of the first is suspended: no two
\* handlers deliver out of the same pending selection.
C29_OneDeliveryPerSelection ==
  \A p, q \in Procs :
    (p # q /\ h[p].st # None) => ~(C29_Delivers(p, h[p].st) /\ C29_Delivers(q, h[p].st))

\* C30: in index.ts and part_001, the removal of the pending selection at
\* the end of a selection handler removes only the pending selection the
\* handler was started from: when the user has exited and completed a new
\* search under the same key while the handler was suspended, the new
\* pending selection is still stored after the old handler has returned.
C30_RemovesOnlyOwnSelection ==
  [][\A p \in Procs :
       (/\ variant \in {"index", "p001"}
        /\ Active(h, p) /\ Has(h[p].log, "tip") /\ h'[p].pc = "done"
        /\ pending[h[p].key] \notin {None, h[p].st})
         => pending'[h[p].key] = pending[h[p].key]]_vars

\* C31: in part_000, once the exit handler has removed the pending
\* selection of a key and no new search was issued, the key stays idle: no
\* handler that was suspended at the time of the exit stores a pending
\* selection for the key when it resumes.
C31_ExitedKeyStaysIdle ==
  variant = "p000" => \A k \in exited : pending[k] = None

\* The expiry timer of a search of index.ts has just run for key k.
C32_TimerRan(k) ==
  /\ variant = "index"
  /\ fired = NoFired /\ fired'.kind = "idx" /\ fired'.key = k

\* C32: in index.ts, the expiry timer armed by a search removes a pending
\* selection and sends the timeout notice only if the selection stored
\* under the key at that moment has itself reached the timeout age; a timer
\* armed for an earlier selection never removes a later selection that has
\* not expired, and at most one timeout notice is sent per pending
\* selection.
C32_TimerActsOnlyOnExpiredSelection ==
  [][\A k \in Keys :
       C32_TimerRan(k) =>
         /\ fired'.notice = fired'.removed
         /\ fired'.removed
              => /\ pending[k] # None /\ pending'[k] = None
                 /\ now - heap[pending[k]].createdAt >= PromptTimeoutSec
                 /\ pending[k] \notin noticed
         /\ ~fired'.removed => pending'[k] = pending[k]]_vars

\* No handler of part_001 is working on key k.
C33_NoHandlerOf(k) == \A p \in Procs : h[p].pc = "idle" \/ h[p].key # k

\* C33: in part_001, whenever a pending selection is stored for a key and
\* no handler for that key is running, an expiry timer is armed for the key,
\* so that with no further input the selection is eventually removed; this
\* holds after every handler outcome, page turns, duration-exceeded and
\* failed delivery included.
C33_StoredSelectionHasTimer ==
  variant = "p001" =>
    \A k \in Keys :
      (pending[k] # None /\ C33_NoHandlerOf(k))
        => \E t \in timers : t.key = k /\ t.kind \in {"p1", "p1fail"}

\* Handler p has accepted a valid number for the selection stored as object
\* o: it is at its tip send or beyond it.
C34_Accepted(p, o) ==
  /\ h[p].pc # "idle" /\ h[p].st = o
  /\ (h[p].pc = "tip" \/ Has(h[p].log, "tip"))

\* C34: in index.ts, the timeout notice is sent only for a pending selection
\* on which the user made no selection: once a valid number has been
\* accepted for it, no expiry timer removes it with a notice, neither while
\* its delivery is in flight nor after the delivery has completed.
C34_NoNoticeForAcceptedSelection ==
  [][\A k \in Keys :
       (C32_TimerRan(k) /\ fired'.notice)
         => ~\E p \in Procs : C34_Accepted(p, pending[k])]_vars

\* C35: in index.ts and part_001, when the known duration of the selected
\* candidate exceeds the configured maximum, the handler reports
\* duration-exceeded without having issued any HTTP request for the
\* selection, neither a URL resolution nor a download.
C35_DurationExceededBeforeAnyRequest ==
  \A p \in Procs :
    (variant \in {"index", "p001"} /\ Has(h[p].log, "durationExceeded"))
      => /\ Urls(h[p].log) = <<>> /\ Misses(h[p].log) = <<>>
         /\ ~Has(h[p].log, "download")

\* The handler in slot p of part_000 or part_001 has returned from a
\* delivery that failed.
C36_FailedDelivery(p) ==
  /\ variant \in {"p000", "p001"} /\ Done(p)
  /\ (Has(h[p].log, "failGuide") \/ Has(h[p].log, "guideThrow"))

\* C36: in part_000 and part_001, after a failed delivery the pending
\* selection is either removed, or kept with the same candidates and with
\* its expiry window restarted to one full timeout from the time of the
\* failure; it is kept exactly when keepMenuIfSendFailed is enabled.
C36_FailedDeliveryClearsOrRefreshes ==
  \A p \in Procs :
    C36_FailedDelivery(p)
      => IF cfg.keepMenuIfSendFailed
         THEN /\ Post(p).has
              /\ Post(p).cell.items = h[p].pre.cell.items
              /\ Post(p).cell.createdAt = now
              /\ variant = "p001"
                   => \E t \in timers :
                        t.key = h[p].key /\ t.due = now + ms(PromptTimeoutSec)
         ELSE ~Post(p).has

\* The line numbers renderMenuText prints for the candidates its under
\* configuration c.
C37_Rendered(c, its) ==
  LET lines == ItemLines(renderMenuText(c, "", 1, its))
  IN {lines[i].idx : i \in 1..Len(lines)}

\* The handler in slot p got an integer while a selection was pending.
C37_IntegerInput(p) ==
  /\ variant = "index" /\ Done(p)
  /\ h[p].pre.has /\ IsIntegerText(h[p].text)

\* C37: in index.ts, every index accepted as a valid selection was displayed
\* in the most recently sent menu, and conversely: for every candidate
\* count and every searchCount, handleSelection resolves a song for the
\* integer n exactly when renderMenuText prints a line numbered n for the
\* stored candidates.
C37_AcceptedIndicesAreRenderedLines ==
  \A p \in Procs, c \in MenuCfgs :
    C37_IntegerInput(p)
      => (Has(h[p].log, "tip")
            <=> NumberOf(h[p].text) \in C37_Rendered(c, h[p].pre.cell.items))

\* The search of the command handled in slot p of part_001 has failed or
\* found nothing.
C38_SearchFailed(hrec) ==
  /\ hrec.path = "cmd"
  /\ hrec.res \in {"reply:searchFailed", "reply:noResult"}

\* C38 as stated: in part_001, a search command that fails with an upstream
\* error or returns no result creates no pending selection and leaves a
\* pending selection that existed for the key, and its expiry timer, as they
\* were (as long as the selection has not reached its timeout).
C38_FailedSearchLeavesPendingUnchanged ==
  \A p \in Procs :
    (variant = "p001" /\ Done(p) /\ C38_SearchFailed(h[p]))
      => IF h[p].pre.has /\ now < h[p].pre.cell.createdAt + PromptTimeoutSec
         THEN /\ Post(p) = h[p].pre
              /\ \E t \in timers : t.key = h[p].key /\ t.id = h[p].pre.cell.timer
         ELSE h[p].pre.has \/ ~Post(p).has

\* A handler record without what tells the two paths apart: the path, and
\* what becomes of an error that the handler lets through (the middleware
\* passes the message on, cmd.action hands the error to its caller).
C39_Blind(hrec) ==
  [hrec EXCEPT !.path = "",
               !.res = IF Has(hrec.log, "guideThrow") THEN "" ELSE @]

\* What a step of the handler in slot p leaves behind: what it did so far
\* and where it stands, the pending selections, the timers and the recalls.
C39_Effect(p) == <<C39_Blind(h[p]), pending, heap, timers, recalls>>

\* The present step takes up the integer t of user u in slot p on the one
\* path, and the other path could take it up with the same effect.
C39_ReceiptMatched(p, u, t) ==
  /\ IdxMwRecv(p, u, t)
       => \E x \in {C39_Effect(p)'} : ENABLED (IdxCmdRecv(p, u, t) /\ C39_Effect(p)' = x)
  /\ IdxCmdRecv(p, u, t)
       => \E x \in {C39_Effect(p)'} : ENABLED (IdxMwRecv(p, u, t) /\ C39_Effect(p)' = x)

\* A step of the selection code after its first await, in slot q.
C39_Continues(q) ==
  \/ IdxTipDone(q) \/ IdxResolveDone(q) \/ IdxSendDirectDone(q)
  \/ IdxDownloadDone(q) \/ IdxTranscodeDone(q) \/ IdxSendAudioDone(q)
  \/ IdxWavDone(q) \/ IdxSendWavDone(q)

\* The handlers in slots p and q took up the same number on the same
\* pending selection, one on each path, and have done the same since.
C39_Twins(p, q) ==
  /\ Active(h, p) /\ Active(h, q)
  /\ h[p].path # h[q].path
  /\ h[p].pre.has /\ IsIntegerText(h[p].text)
  /\ C39_Blind(h[p]) = C39_Blind(h[q])

\* The present step is one of slot p after an await, and slot q, on the
\* other path, could take a step with the same effect.
C39_StepMatched(p, q) ==
  (HandlerStep(p) /\ ~HandlerReceipt(p))
    => \E x \in {C39_Effect(p)'} : ENABLED (C39_Continues(q) /\ C39_Effect(q)' = x)

====
